---- MODULE Spec2Model ----
(***************************************************************************)
(* The bridge layer of package vz (virtualization.go): the cgo handle      *)
(* registry, the completion-handler adapter of Start/Pause/Resume/Stop,    *)
(* the machine-state channel, the GUI window flag and VM finalization.     *)
(*                                                                         *)
(* The specifications share one initial state, the state right after       *)
(* NewVirtualMachine returned:                                             *)
(*   SpecState       state-observer callbacks, State(), StateChangedNotify *)
(*   SpecCompletion  Start/Pause/Resume/Stop and their completion handlers *)
(*   Spec            window handle, window-closed callback, finalization   *)
(*   SpecTeardown    Spec together with the state-observer callbacks       *)
(***************************************************************************)
EXTENDS Integers, Sequences, FiniteSets, TLC

\* ------------------------------------------------------------------ bounds
\* number of state-observer callbacks the runtime raises
MaxCallbacks == 3
\* number of control calls (Start/Pause/Resume/Stop) issued per goroutine
MaxCalls == 1
\* number of StartGraphicApplication calls
MaxWindows == 2
\* number of ShowWindow, BringWindowToFront and HasGUIWindow calls
MaxWindowOps == 3
\* number of raw disconnect events the runtime raises
MaxEvents == 2
\* number of NetworkDeviceAttachmentWasDisconnected calls
MaxSubscriptions == 2

\* Add and Remove calls made on the example registry
MaxRegistryOps == 3

\* example/gui-linux/registry.go line 14 and two more VM names
RegistryNames == {"default", "a", "b"}

\* createAndShowVM calls the example application makes
MaxAppCalls == 3

\* unnamed/part_002 lines 366-373: the goroutines that call createAndShowVM
AppCallers == {"create", "start"}

\* the VM names the callers use, and a caller that has made no call
Titles == {"vm"}
NoTitle == "none"

\* --------------------------------------------------------- program values
VirtualMachineStateStopped == 0
VirtualMachineStateRunning == 1
VirtualMachineStatePaused == 2

\* the execution states the runtime reports in this model
States ==
  {VirtualMachineStateStopped, VirtualMachineStateRunning, VirtualMachineStatePaused}

\* native threads delivering state-observer callbacks
Threads == {"t1", "t2"}
\* goroutines reading the channel returned by StateChangedNotify
Subscribers == {"s1", "s2"}
\* goroutines issuing control calls
Callers == {"c1", "c2"}
\* the control operations
Ops == {"Start", "Pause", "Resume", "Stop"}
\* the GC finalizer and a second, direct invocation of finalize
Finalizers == {"gc", "direct"}

\* NSError pointers the runtime passes to a completion; 0 is the NULL pointer
ErrPtrs == {0, 1, 2}
\* Go error values: nil, an NSError, the error of macOSAvailable, an option's error
Nil == [kind |-> "nil", code |-> 0]
NSError(p) == [kind |-> "NSError", code |-> p]
ErrUnsupportedOSVersion == [kind |-> "unsupported", code |-> 0]
ErrOption == [kind |-> "option", code |-> 0]
\* macOS major versions
OSVersions == {11, 12}
\* window widths and heights passed to StartGraphicApplication
Dims == {0, 800}

NoValue == [kind |-> "none", ref |-> "none"]

\* the second VM before NewVirtualMachine created it
NoPeer == [created |-> FALSE, stateHandle |-> 0, disconnectedHandle |-> 0,
           state |-> 0, stateNotify |-> <<>>, disconnectedIn |-> <<>>,
           hasGUIWindow |-> FALSE, windowClosedHandle |-> 0, uiTokens |-> {},
           guiCount |-> 0]

\* v.config.networkDeviceConfiguration: the configured network devices
networkDeviceConfiguration == <<"net0", "net1">>
\* a nil *VirtioNetworkDeviceConfiguration
NilConfig == "nil"
\* device indexes the runtime reports, in range and out of range
DeviceIndexes == -1 .. Len(networkDeviceConfiguration)
\* the errors of the window operations (fmt.Errorf at lines 498, 501, 519)
ErrNoWindow == [kind |-> "GUI window does not exist", code |-> 0]
ErrNotAvailable == [kind |-> "GUI window is not available", code |-> 0]
ErrNeverInitialized == [kind |-> "GUI was never initialized", code |-> 0]
\* the result of an operation that was not called
NotCalled == [kind |-> "not called", code |-> 0]
\* the history records before the first call
NoStart == [called |-> FALSE, width |-> 0, height |-> 0, err |-> NotCalled,
            existsBefore |-> FALSE, handleBefore |-> 0, handleAfter |-> 0]
NoShow == [called |-> FALSE, err |-> NotCalled, handleBefore |-> 0, issued |-> FALSE]
NoHas == [called |-> FALSE, exists |-> FALSE, surface |-> FALSE, value |-> FALSE,
          at |-> "none"]
\* a disconnected value before the worker has one in hand
NoEvent == [err |-> Nil, index |-> 0]

VARIABLES
  \* runtime/cgo handle table and its counter
  handles, handleIdx,
  \* process crashed by a Go panic: "none" or the reason
  panic,
  \* result of macOSAvailable's version probe
  macOSVersion,
  \* machineState: state, mu (write holder), stateNotify (infinity channel buffer)
  state, msMu, stateNotify,
  \* state-observer callbacks in flight: position and argument (the argument
  \* of a callback that returned is gone: it reads as the zero state)
  cbPc, cbArg,
  \* history: states carried by the callbacks, in the order they took the lock
  fired,
  \* subscribers: who called StateChangedNotify, the number of callbacks fired
  \* when it returned, and the values read
  subscribed, subscribedAt, received,
  \* history: which subscriber read the i-th value handed out by the channel
  deliveredTo,
  \* last State() call: whether one was made, its result and the number of
  \* callbacks returned before it
  stateWasRead, stateRead, stateReadAt,
  \* control calls: position, operation, handle, result, calls made
  callPc, callOp, callHandle, callResult, callCount,
  \* errCh of each caller's current call: buffered values and closed flag
  errCh,
  \* the runtime's completion per handle it was given: "none", "pending",
  \* "fired" or "dropped" (the runtime will never fire it)
  completion,
  \* history: NSError pointer the runtime passed when it fired the completion,
  \* and sends made on the errCh of each caller's current call
  firedPtr, deliveries,
  \* VirtualMachine: hasGUIWindow, windowClosedHandle, mu (holder), finalizeOnce
  hasGUIWindow, windowClosedHandle, vmMu, finalizeOnce,
  \* StartGraphicApplication in flight and calls made; tokens handed to the UI layer
  guiPc, guiCount, uiTokens,
  \* finalize invocations: position per invoker
  finPc,
  \* history: executions of the guarded block and of each release in it
  guardedRuns, windowReleases, dispatchReleases, vmReleases,
  \* history: every window-closed handle StartGraphicApplication allocated
  windowHandles,
  \* disconnectedIn and disconnectedOut: queued values and closed flag
  disconnectedIn, disconnectedOut,
  \* watchDisconnectedOnce, and the worker: position, event and config in hand
  watchDisconnectedOnce, watchPc, watchEvent, watchConfig,
  \* NetworkDeviceAttachmentWasDisconnected: calls made and the results returned
  ndCalls, ndResults,
  \* what the consumer read from the public channel
  publicReceived,
  \* history: raw events in the order the runtime raised them, worker starts,
  \* closes of the public channel, events not yet published when stage 1 closed
  rawEvents, workerStarts, outCloses, queuedAtClose,
  \* what C.hasVirtualMachineWindow() reports
  surface,
  \* BringWindowToFront: position, the flag it read, its result
  bringPc, bringHasGUI, bringResult,
  \* history: the last StartGraphicApplication, ShowWindow and HasGUIWindow
  \* calls, foreign show and bring-to-front calls issued, window operations made
  startLast, showLast, hasLast, showCalls, frontCalls, windowOps,
  \* history: where the window is in its start, close, show cycle
  lifecycle,
  \* [NSApp isRunning], and history: the last window start ran the event loop
  appRunning, startWaited,
  \* history: the last CanStop call
  canStopLast,
  \* handles whose completion callback has sent and has not yet returned
  handlerRunning,
  \* history: a bring-to-front call was issued while hasGUIWindow was false
  frontRaced,
  \* history: what stage 1 held, and whether it was closed, when the worker started
  workerStartedWith,
  \* a second VM of the same process: its handles, current state, streams,
  \* hasGUIWindow and windowClosedHandle; not yet created at first
  peer,
  \* the UI layer: the app delegate's _windowControllers, the controllers whose
  \* window is open, and history: controllers created, direct add and remove
  \* calls, terminations requested, stops requested on close, stops not yet
  \* completed, stop errors logged
  ui,
  \* the example application: runningVMs.names, each caller's position in
  \* createAndShowVM with its title, VM and last result, the VMs created (state,
  \* monitor goroutine, whether the call returned nil), and history: calls made
  \* and, per title, markRunning successes since the last markStopped
  app,
  \* the example registry: the entry names of r.VMs in order, the names last
  \* written to registry.json, and history: operations made, the kinds of Add
  \* failure seen
  reg

registryVars == <<handles, handleIdx, panic, macOSVersion>>
stateVars == <<state, msMu, stateNotify, cbPc, cbArg, fired, subscribed, subscribedAt,
               received, deliveredTo, stateWasRead, stateRead, stateReadAt>>
callVars == <<callPc, callOp, callHandle, callResult, callCount, errCh, completion,
              firedPtr, deliveries>>
vmVars == <<hasGUIWindow, windowClosedHandle, vmMu, finalizeOnce, guiPc, guiCount,
            uiTokens, finPc, guardedRuns, windowReleases, dispatchReleases, vmReleases,
            windowHandles>>
discVars == <<disconnectedIn, disconnectedOut, watchDisconnectedOnce, watchPc, watchEvent,
              watchConfig, ndCalls, ndResults, publicReceived, rawEvents, workerStarts,
              outCloses, queuedAtClose>>
guiVars == <<surface, bringPc, bringHasGUI, bringResult, startLast, showLast, hasLast,
             showCalls, frontCalls, windowOps, lifecycle>>
appVars == <<appRunning, startWaited, canStopLast, handlerRunning>>
vars == <<registryVars, stateVars, callVars, vmVars, discVars, guiVars, appVars, frontRaced,
         workerStartedWith, peer, ui, app, reg>>

\* ------------------------------------------------- runtime/cgo.Handle table
\* tokens the model can allocate: two at construction, one per control call,
\* one per StartGraphicApplication
Tokens == 1 .. (2 + MaxCalls * Cardinality(Callers) + MaxWindows)

\* cgo.Handle.Value: the handle is valid
Valid(h) == h \in DOMAIN handles /\ handles[h] # NoValue

\* cgo.NewHandle: the next counter value maps to v
NewHandle(v) == [handles EXCEPT ![handleIdx + 1] = v]

\* mutant: the handle is left in the table
DeleteKeepsValue(h) == handles

\* cgo.Handle.Delete on a valid handle
Delete(h) == [handles EXCEPT ![h] = NoValue]

stateHandle == 1
disconnectedHandle == 2

\* ------------------------------------------------ infinity.Channel (queue)
\* mutant: the newest value is handed out first
ChanSendFront(q, x) == <<x>> \o q

\* In() <- x: the buffering goroutine takes x and appends it to its queue
ChanSend(q, x) == Append(q, x)
\* <-Out(): the buffering goroutine hands the head of its queue to one receiver
ChanHead(q) == Head(q)
ChanRest(q) == Tail(q)

\* --------------------------------------------------------- NewVirtualMachine
Init ==
  /\ macOSVersion \in OSVersions
  /\ handleIdx = 2
  /\ handles = [h \in Tokens |->
                  IF h = stateHandle THEN [kind |-> "machineState", ref |-> "vm"]
                  ELSE IF h = disconnectedHandle THEN [kind |-> "disconnectedIn", ref |-> "vm"]
                  ELSE NoValue]
  /\ panic = "none"
  /\ state = VirtualMachineStateStopped
  /\ msMu = "none"
  /\ stateNotify = <<>>
  /\ cbPc = [t \in Threads |-> "idle"]
  /\ cbArg = [t \in Threads |-> VirtualMachineStateStopped]
  /\ fired = <<>>
  /\ subscribed = {}
  /\ subscribedAt = [s \in Subscribers |-> 0]
  /\ received = [s \in Subscribers |-> <<>>]
  /\ deliveredTo = <<>>
  /\ stateRead = VirtualMachineStateStopped
  /\ stateWasRead = FALSE
  /\ stateReadAt = 0
  /\ callPc = [c \in Callers |-> "idle"]
  /\ callOp = [c \in Callers |-> "Start"]
  /\ callHandle = [c \in Callers |-> 0]
  /\ callResult = [c \in Callers |-> Nil]
  /\ callCount = [c \in Callers |-> 0]
  /\ errCh = [c \in Callers |-> [buf |-> <<>>, closed |-> FALSE]]
  /\ completion = [h \in Tokens |-> "none"]
  /\ firedPtr = [h \in Tokens |-> 0]
  /\ deliveries = [c \in Callers |-> 0]
  /\ hasGUIWindow = FALSE
  /\ windowClosedHandle = 0
  /\ vmMu = "none"
  /\ finalizeOnce = "fresh"
  /\ guiPc = "idle"
  /\ guiCount = 0
  /\ uiTokens = {}
  /\ finPc = [f \in Finalizers |-> "idle"]
  /\ guardedRuns = 0
  /\ windowReleases = 0
  /\ dispatchReleases = 0
  /\ vmReleases = 0
  /\ windowHandles = {}
  /\ disconnectedIn = [q |-> <<>>, closed |-> FALSE]
  /\ disconnectedOut = [q |-> <<>>, closed |-> FALSE]
  /\ watchDisconnectedOnce = "fresh"
  /\ watchPc = "off"
  /\ watchEvent = NoEvent
  /\ watchConfig = NilConfig
  /\ ndCalls = 0
  /\ ndResults = {}
  /\ publicReceived = <<>>
  /\ rawEvents = <<>>
  /\ workerStarts = 0
  /\ outCloses = 0
  /\ queuedAtClose = 0
  /\ surface = FALSE
  /\ bringPc = "idle"
  /\ bringHasGUI = FALSE
  /\ bringResult = NotCalled
  /\ startLast = NoStart
  /\ showLast = NoShow
  /\ hasLast = NoHas
  /\ showCalls = 0
  /\ frontCalls = 0
  /\ windowOps = 0
  /\ lifecycle = "none"
  /\ appRunning = FALSE
  /\ startWaited = FALSE
  /\ canStopLast = [called |-> FALSE, asked |-> FALSE, value |-> FALSE]
  /\ handlerRunning = {}
  /\ frontRaced = FALSE
  /\ workerStartedWith = [queued |-> 0, closed |-> FALSE]
  /\ peer = NoPeer
  /\ ui = [controllers |-> <<>>, open |-> {}, created |-> 0, calls |-> 0,
           terminateRequests |-> 0, stopRequests |-> 0, pendingStops |-> 0,
           stopErrors |-> 0]
  /\ app = [names |-> {}, pc |-> [c \in AppCallers |-> "idle"],
            title |-> [c \in AppCallers |-> NoTitle], vm |-> [c \in AppCallers |-> 0],
            result |-> [c \in AppCallers |-> "none"], vms |-> <<>>, calls |-> 0,
            passes |-> [t \in Titles |-> 0]]
  /\ reg = [VMs |-> <<>>, disk |-> <<>>, ops |-> 0, failed |-> {}]

\* ------------------------------------------------------ changeStateOnObserver
\* mutant: the callback publishes but does not store the new state
ObserverStoreSkipped(t, newStateRaw) ==
  /\ state' = state
  /\ msMu' = t
  /\ cbPc' = [cbPc EXCEPT ![t] = "send"]
  /\ cbArg' = [cbArg EXCEPT ![t] = newStateRaw]
  /\ fired' = Append(fired, newStateRaw)
  /\ UNCHANGED panic

\* lines 222-228: resolve the handle, take the write lock, store the new state
ObserverStore(t, newStateRaw) ==
  /\ state' = newStateRaw
  /\ msMu' = t
  /\ cbPc' = [cbPc EXCEPT ![t] = "send"]
  /\ cbArg' = [cbArg EXCEPT ![t] = newStateRaw]
  /\ fired' = Append(fired, newStateRaw)
  /\ UNCHANGED panic

\* mutant: the callback does not wait for the write lock
ObserverLockSkipped(t) == TRUE

\* line 226: v.mu.Lock() is granted only while no other holder has the lock
ObserverLock(t) == msMu = "none"

ChangeStateBegin(t, newStateRaw) ==
  /\ panic = "none"
  /\ cbPc[t] = "idle"
  /\ Len(fired) < MaxCallbacks
  /\ IF ~Valid(stateHandle)
       THEN /\ panic' = "invalid handle: changeStateOnObserver"
            /\ UNCHANGED <<state, msMu, cbPc, cbArg, fired>>
       ELSE /\ ObserverLock(t)
            /\ ObserverStore(t, newStateRaw)
  /\ UNCHANGED <<handles, handleIdx, macOSVersion, stateNotify, subscribed, subscribedAt,
                 received, deliveredTo, stateWasRead, stateRead, stateReadAt, callVars, vmVars, discVars, guiVars,
                 appRunning, startWaited, canStopLast, handlerRunning, frontRaced,
                 workerStartedWith, peer, ui, app, reg>>

\* mutant: In() accepts a value only while nothing is queued
InAcceptsWhenEmpty(q) == q = <<>>

\* lines 229, 585, 600: a send on In() of an infinity channel is accepted
\* whatever is queued and whether or not anyone receives
InAccepts(q) == TRUE

\* mutant: a state equal to the last queued one is coalesced
ObserverPublishCoalesced(t) ==
  IF stateNotify # <<>> /\ stateNotify[Len(stateNotify)] = cbArg[t]
    THEN stateNotify
    ELSE ChanSend(stateNotify, cbArg[t])

\* line 229: v.stateNotify.In() <- newState
ObserverPublish(t) == ChanSend(stateNotify, cbArg[t])

ChangeStateSend(t) ==
  /\ panic = "none"
  /\ cbPc[t] = "send"
  /\ InAccepts(stateNotify)
  /\ stateNotify' = ObserverPublish(t)
  /\ cbPc' = [cbPc EXCEPT ![t] = "unlock"]
  /\ UNCHANGED <<registryVars, state, msMu, cbArg, fired, subscribed, subscribedAt,
                 received, deliveredTo, stateWasRead, stateRead, stateReadAt, callVars, vmVars, discVars, guiVars,
                 appRunning, startWaited, canStopLast, handlerRunning, frontRaced,
                 workerStartedWith, peer, ui, app, reg>>

\* line 230: v.mu.Unlock() and return
ChangeStateUnlock(t) ==
  /\ panic = "none"
  /\ cbPc[t] = "unlock"
  /\ msMu' = "none"
  /\ cbPc' = [cbPc EXCEPT ![t] = "idle"]
  /\ cbArg' = [cbArg EXCEPT ![t] = VirtualMachineStateStopped]
  /\ UNCHANGED <<registryVars, state, stateNotify, fired, subscribed, subscribedAt,
                 received, deliveredTo, stateWasRead, stateRead, stateReadAt, callVars, vmVars, discVars, guiVars,
                 appRunning, startWaited, canStopLast, handlerRunning, frontRaced,
                 workerStartedWith, peer, ui, app, reg>>

\* ------------------------------------------------------------------- State()
\* the value read under the read lock
StateValue == state

State ==
  /\ panic = "none"
  /\ msMu = "none"
  /\ stateWasRead' = TRUE
  /\ stateRead' = StateValue
  /\ stateReadAt' = Len(fired)
  /\ UNCHANGED <<registryVars, state, msMu, stateNotify, cbPc, cbArg, fired, subscribed,
                 subscribedAt, received, deliveredTo, callVars, vmVars, discVars, guiVars,
                 appRunning, startWaited, canStopLast, handlerRunning, frontRaced,
                 workerStartedWith, peer, ui, app, reg>>

\* -------------------------------------------------------- StateChangedNotify
\* mutant: every call starts a fresh stream, what is queued is discarded
OutFresh(q) == <<>>

\* line 261: Out() returns the queue's one output channel; what is queued stays queued
Out(q) == q

StateChangedNotify(s) ==
  /\ panic = "none"
  /\ msMu = "none"
  /\ s \notin subscribed
  /\ subscribed' = subscribed \cup {s}
  /\ subscribedAt' = [subscribedAt EXCEPT ![s] = Len(fired)]
  /\ stateNotify' = Out(stateNotify)
  /\ UNCHANGED <<registryVars, state, msMu, cbPc, cbArg, fired, received,
                 deliveredTo, stateWasRead, stateRead, stateReadAt, callVars, vmVars, discVars, guiVars,
                 appRunning, startWaited, canStopLast, handlerRunning, frontRaced,
                 workerStartedWith, peer, ui, app, reg>>

\* mutant: a received value stays queued for the other receivers
AfterReceiveKept(q) == q

\* the queue after one receive from the output channel
AfterReceive(q) == ChanRest(q)

\* a subscriber receives from the channel it was given
Receive(s) ==
  /\ panic = "none"
  /\ s \in subscribed
  /\ stateNotify # <<>>
  /\ received' = [received EXCEPT ![s] = Append(@, ChanHead(stateNotify))]
  /\ deliveredTo' = Append(deliveredTo, s)
  /\ stateNotify' = AfterReceive(stateNotify)
  /\ UNCHANGED <<registryVars, state, msMu, cbPc, cbArg, fired, subscribed, subscribedAt,
                 stateWasRead, stateRead, stateReadAt, callVars, vmVars, discVars, guiVars,
                 appRunning, startWaited, canStopLast, handlerRunning, frontRaced,
                 workerStartedWith, peer, ui, app, reg>>

NextState ==
  \/ \E t \in Threads, s \in States : ChangeStateBegin(t, s)
  \/ \E t \in Threads : ChangeStateSend(t)
  \/ \E t \in Threads : ChangeStateUnlock(t)
  \/ State
  \/ \E s \in Subscribers : StateChangedNotify(s)
  \/ \E s \in Subscribers : Receive(s)

SpecState == Init /\ [][NextState]_vars

\* ------------------------------------------------------------ makeHandler
\* mutant: the channel is closed before anything was delivered
MakeChanClosed == [buf |-> <<>>, closed |-> TRUE]

\* line 309: ch := make(chan error, 1)
MakeChan == [buf |-> <<>>, closed |-> FALSE]

\* newNSError: a NULL pointer is no error
newNSError(errPtr) == IF errPtr = 0 THEN Nil ELSE NSError(errPtr)

\* mutant: every version passes the check
macOSAvailableAlways(version) == TRUE

\* macOSAvailable(version): nil when the running version is at least `version`
macOSAvailable(version) == macOSVersion >= version

\* the version a control operation requires (Stop: line 401; others: 11, as the VM)
RequiredVersion(op) == IF op = "Stop" THEN 12 ELSE 11

\* mutant: the entry point invokes the most recently registered handler
HandlerOfLatest(h) == handles[handleIdx].ref

\* line 299: handler := cgoHandle.Value().(func(error)); the closure of caller ref
HandlerOf(h) == handles[h].ref

\* mutant: the receive is a poll that does not wait for a delivery
CanReceiveAlways(ch) == TRUE

\* <-errCh can proceed: a value is buffered or the channel is closed
CanReceive(ch) == ch.buf # <<>> \/ ch.closed

\* the value <-errCh yields: the buffered value, or the zero value of a closed channel
ReceivedValue(ch) == IF ch.buf # <<>> THEN Head(ch.buf) ELSE Nil

\* ------------------------------------------------ Start, Pause, Resume, Stop
\* lines 329-339, 357-360, 368-371, 400-406 and the foreign call after them:
\* early returns, makeHandler, cgo.NewHandle, C.<op>WithCompletionHandler
Call(c, op, optErr) ==
  /\ panic = "none"
  /\ callPc[c] \in {"idle", "returned", "failed"}
  /\ callCount[c] < MaxCalls
  /\ callCount' = [callCount EXCEPT ![c] = @ + 1]
  /\ callOp' = [callOp EXCEPT ![c] = op]
  /\ deliveries' = [deliveries EXCEPT ![c] = 0]
  /\ IF ~macOSAvailable(RequiredVersion(op))
       THEN /\ callResult' = [callResult EXCEPT ![c] = ErrUnsupportedOSVersion]
            /\ callPc' = [callPc EXCEPT ![c] = "failed"]
            /\ callHandle' = [callHandle EXCEPT ![c] = 0]
            /\ UNCHANGED <<handles, handleIdx, errCh, completion>>
       ELSE IF op = "Start" /\ optErr
       THEN /\ callResult' = [callResult EXCEPT ![c] = ErrOption]
            /\ callPc' = [callPc EXCEPT ![c] = "failed"]
            /\ callHandle' = [callHandle EXCEPT ![c] = 0]
            /\ UNCHANGED <<handles, handleIdx, errCh, completion>>
       ELSE /\ errCh' = [errCh EXCEPT ![c] = MakeChan]
            /\ handles' = NewHandle([kind |-> "handler", ref |-> c])
            /\ handleIdx' = handleIdx + 1
            /\ callHandle' = [callHandle EXCEPT ![c] = handleIdx + 1]
            /\ completion' = [completion EXCEPT ![handleIdx + 1] = "pending"]
            /\ callPc' = [callPc EXCEPT ![c] = "waiting"]
            /\ UNCHANGED callResult
  /\ UNCHANGED <<panic, macOSVersion, firedPtr, stateVars, vmVars, discVars, guiVars, appRunning,
                 startWaited, canStopLast, handlerRunning, frontRaced, workerStartedWith, peer, ui,
                 app, reg>>

\* lines 296-306 and 311: the runtime fires the completion of handle h; the
\* entry point resolves the handle and the handler sends on its channel
virtualMachineCompletionHandler(h, errPtr) ==
  /\ panic = "none"
  /\ completion[h] = "pending"
  /\ completion' = [completion EXCEPT ![h] = "fired"]
  /\ firedPtr' = [firedPtr EXCEPT ![h] = errPtr]
  /\ IF ~Valid(h)
       THEN /\ panic' = "invalid handle: virtualMachineCompletionHandler"
            /\ UNCHANGED <<errCh, deliveries, handlerRunning>>
       ELSE IF handles[h].kind # "handler"
       THEN /\ panic' = "interface conversion: virtualMachineCompletionHandler"
            /\ UNCHANGED <<errCh, deliveries, handlerRunning>>
       ELSE LET c == HandlerOf(h) IN
            IF errCh[c].closed
              THEN /\ panic' = "send on closed channel"
                   /\ UNCHANGED <<errCh, deliveries, handlerRunning>>
              ELSE /\ Len(errCh[c].buf) < 1
                   /\ errCh' = [errCh EXCEPT ![c].buf = Append(@, newNSError(errPtr))]
                   /\ deliveries' = [deliveries EXCEPT ![c] = @ + 1]
                   /\ handlerRunning' = handlerRunning \cup {h}
                   /\ UNCHANGED panic
  /\ UNCHANGED <<handles, handleIdx, macOSVersion, callPc, callOp, callHandle, callResult,
                 callCount, stateVars, vmVars, discVars, guiVars, appRunning, startWaited,
                 canStopLast, frontRaced, workerStartedWith, peer, ui, app, reg>>

\* line 312: close(ch), then the handler and the entry point return; the
\* channel is the one of the call that registered h, out of reach once that
\* caller has gone on to another call
HandlerClose(h) ==
  /\ panic = "none"
  /\ h \in handlerRunning
  /\ handlerRunning' = handlerRunning \ {h}
  /\ IF \E c \in Callers : callHandle[c] = h
       THEN LET c == CHOOSE c \in Callers : callHandle[c] = h IN
            IF errCh[c].closed
              THEN panic' = "close of closed channel" /\ UNCHANGED errCh
              ELSE errCh' = [errCh EXCEPT ![c].closed = TRUE] /\ UNCHANGED panic
       ELSE UNCHANGED <<panic, errCh>>
  /\ UNCHANGED <<handles, handleIdx, macOSVersion, callPc, callOp, callHandle, callResult,
                 callCount, completion, firedPtr, deliveries, stateVars, vmVars, discVars,
                 guiVars, appRunning, startWaited, canStopLast, frontRaced, workerStartedWith,
                 peer, ui, app, reg>>

\* the foreign runtime never fires the completion of handle h
CompletionNeverFires(h) ==
  /\ panic = "none"
  /\ completion[h] = "pending"
  /\ completion' = [completion EXCEPT ![h] = "dropped"]
  /\ UNCHANGED <<registryVars, callPc, callOp, callHandle, callResult, callCount, errCh,
                 firedPtr, deliveries, stateVars, vmVars, discVars, guiVars, appRunning,
                 startWaited, canStopLast, handlerRunning, frontRaced, workerStartedWith, peer, ui,
                 app, reg>>

\* lines 351, 362, 373, 408 and the deferred handle.Delete(): return <-errCh
Return(c) ==
  /\ panic = "none"
  /\ callPc[c] = "waiting"
  /\ CanReceive(errCh[c])
  /\ callResult' = [callResult EXCEPT ![c] = ReceivedValue(errCh[c])]
  /\ errCh' = [errCh EXCEPT ![c].buf = IF @ = <<>> THEN @ ELSE Tail(@)]
  /\ callPc' = [callPc EXCEPT ![c] = "returned"]
  /\ IF Valid(callHandle[c])
       THEN handles' = Delete(callHandle[c]) /\ UNCHANGED panic
       ELSE panic' = "invalid handle: Delete" /\ UNCHANGED handles
  /\ UNCHANGED <<handleIdx, macOSVersion, callOp, callHandle, callCount, completion,
                 firedPtr, deliveries, stateVars, vmVars, discVars, guiVars, appRunning,
                 startWaited, canStopLast, handlerRunning, frontRaced, workerStartedWith, peer, ui,
                 app, reg>>

NextCompletion ==
  \/ \E c \in Callers, op \in Ops, optErr \in BOOLEAN : Call(c, op, optErr)
  \/ \E h \in Tokens, errPtr \in ErrPtrs : virtualMachineCompletionHandler(h, errPtr)
  \/ \E h \in Tokens : HandlerClose(h)
  \/ \E h \in Tokens : CompletionNeverFires(h)
  \/ \E c \in Callers : Return(c)

SpecCompletion == Init /\ [][NextCompletion]_vars

\* -------------------------------------------------- StartGraphicApplication
\* the consumer still references the VM: no teardown has begun
ConsumerHoldsVM == finalizeOnce = "fresh"

\* lines 452-470: version check, options, then under v.mu: hasGUIWindow = true
\* and a new handle for the window-closed callback
StartGraphicApplication(width, height, optErr) ==
  /\ panic = "none"
  /\ ConsumerHoldsVM
  /\ guiPc = "idle"
  /\ guiCount < MaxWindows
  /\ guiCount' = guiCount + 1
  /\ IF ~macOSAvailable(12) \/ optErr
       THEN /\ UNCHANGED <<handles, handleIdx, hasGUIWindow, windowClosedHandle, guiPc,
                           windowHandles, lifecycle>>
            /\ startLast' = [called |-> TRUE, width |-> width, height |-> height,
                             err |-> IF ~macOSAvailable(12) THEN ErrUnsupportedOSVersion
                                                            ELSE ErrOption,
                             existsBefore |-> hasGUIWindow,
                             handleBefore |-> windowClosedHandle,
                             handleAfter |-> windowClosedHandle]
       ELSE /\ vmMu = "none"
            /\ hasGUIWindow' = TRUE
            /\ handles' = NewHandle([kind |-> "vm", ref |-> "vm"])
            /\ handleIdx' = handleIdx + 1
            /\ windowClosedHandle' = handleIdx + 1
            /\ windowHandles' = windowHandles \cup {handleIdx + 1}
            /\ guiPc' = "window"
            /\ lifecycle' = "started"
            /\ startLast' = [called |-> TRUE, width |-> width, height |-> height,
                             err |-> Nil, existsBefore |-> hasGUIWindow,
                             handleBefore |-> windowClosedHandle,
                             handleAfter |-> handleIdx + 1]
  /\ UNCHANGED <<panic, macOSVersion, vmMu, finalizeOnce, uiTokens, finPc, guardedRuns,
                 windowReleases, dispatchReleases, vmReleases, stateVars, callVars, discVars,
                 surface, bringPc, bringHasGUI, bringResult, showLast, hasLast, showCalls,
                 frontCalls, windowOps, appRunning, startWaited, canStopLast, handlerRunning,
                 frontRaced, workerStartedWith, peer, ui, app, reg>>

\* the elements of a sequence
Range(q) == {q[i] : i \in DOMAIN q}

\* the window controllers the UI layer can create
ControllerIds == 1 .. MaxWindows

\* virtualization_default_app.m line 923: [_windowControllers addObject:]
AddObject(cs, c) == Append(cs, c)

\* virtualization_default_app.m line 931: [_windowControllers removeObject:]
\* removes every occurrence
RemoveObject(cs, c) == SelectSeq(cs, LAMBDA x : x # c)

\* mutant: the termination test ignores the collection
ShouldTerminateAlways(cs) == TRUE

\* virtualization_default_app.m line 932: shouldTerminate
ShouldTerminate(cs) == Len(cs) = 0

\* mutant: a close asks for a stop whatever the VM answers
StopIssuedAlways(canStop) == TRUE

\* virtualization_default_app.m line 657: if (_virtualMachine.canStop)
StopIssued(canStop) == canStop

\* virtualization_default_app.m lines 920-925: the UI layer's state after
\* addWindowController: c
AfterAdd(u, c) == [u EXCEPT !.controllers = AddObject(@, c)]

\* virtualization_default_app.m lines 927-939: the UI layer's state after
\* removeWindowController: c; with the collection empty it queues
\* [NSApp terminate:] on the main queue
AfterRemove(u, c) ==
  LET cs == RemoveObject(u.controllers, c)
  IN  [u EXCEPT !.controllers = cs,
                !.terminateRequests = IF ShouldTerminate(cs) THEN @ + 1 ELSE @]

\* virtualization_default_app.m lines 66-104: createVirtualMachineWindow makes
\* a fresh controller, registers it with the app delegate and shows its window
createVirtualMachineWindow(u) ==
  LET c == u.created + 1
  IN  [AfterAdd(u, c) EXCEPT !.created = c, !.open = @ \cup {c}]

\* virtualization_default_app.m lines 654-670: the UI layer's state after
\* windowWillClose of controller c: a stop is requested if the VM can stop,
\* then the controller is removed
AfterWillClose(u, c, canStop) ==
  AfterRemove([u EXCEPT !.open = @ \ {c},
                        !.stopRequests = IF StopIssued(canStop) THEN @ + 1 ELSE @,
                        !.pendingStops = IF StopIssued(canStop) THEN @ + 1 ELSE @], c)

\* mutant: the window start never runs the event loop
RunsEventLoopNever(running) == FALSE

\* virtualization_default_app.m line 38: if (![NSApp isRunning]) [NSApp run]
RunsEventLoop(running) == ~running

\* lines 472-482: C.startVirtualMachineWindow(..., v.windowClosedHandle, ...);
\* virtualization_default_app.m lines 111-121: the window is created and
\* shown, then runApplication(), which runs the event loop unless it is
\* running already and returns when that loop ends
StartVirtualMachineWindow ==
  /\ panic = "none"
  /\ guiPc = "window"
  /\ uiTokens' = uiTokens \cup {windowClosedHandle}
  /\ surface' = TRUE
  /\ ui' = createVirtualMachineWindow(ui)
  /\ IF RunsEventLoop(appRunning)
       THEN guiPc' = "run" /\ appRunning' = TRUE /\ startWaited' = TRUE
       ELSE guiPc' = "idle" /\ appRunning' = appRunning /\ startWaited' = FALSE
  /\ UNCHANGED <<registryVars, hasGUIWindow, windowClosedHandle, vmMu, finalizeOnce,
                 guiCount, finPc, guardedRuns, windowReleases, dispatchReleases,
                 vmReleases, windowHandles, stateVars, callVars, discVars,
                 bringPc, bringHasGUI, bringResult, startLast, showLast, hasLast,
                 showCalls, frontCalls, windowOps, lifecycle, canStopLast, handlerRunning,
                 frontRaced, workerStartedWith, peer, app, reg>>

\* virtualization_default_app.m lines 33-42: runApplication() called by the
\* consumer itself on the main thread; it returns when the loop ends
RunApplication ==
  /\ panic = "none"
  /\ ~appRunning
  /\ guiPc = "idle"
  /\ appRunning' = TRUE
  /\ UNCHANGED <<registryVars, stateVars, callVars, vmVars, discVars, guiVars, startWaited, canStopLast,
                 handlerRunning, frontRaced, workerStartedWith, peer, ui, app, reg>>

\* virtualization_default_app.m lines 928-939 and the Quit menu item: the
\* application terminates, which ends the event loop and returns from the
\* call that ran it
ApplicationTerminates ==
  /\ panic = "none"
  /\ appRunning
  /\ appRunning' = FALSE
  /\ guiPc' = IF guiPc = "run" THEN "idle" ELSE guiPc
  /\ UNCHANGED <<registryVars, stateVars, callVars, discVars, guiVars, hasGUIWindow,
                 windowClosedHandle, vmMu, finalizeOnce, guiCount, uiTokens, finPc,
                 guardedRuns, windowReleases, dispatchReleases, vmReleases, windowHandles,
                 startWaited, canStopLast, handlerRunning, frontRaced, workerStartedWith, peer, ui,
                 app, reg>>

\* ------------------------------------------------------- notifyWindowClosed
\* mutant: every token resolves to the first VM of the process
OwnerFirst(h) == "vm"

\* lines 225, 239, 600: handle.Value() yields the object that was registered
\* under the token, which belongs to one VM
Owner(h) == handles[h].ref

\* mutant: the callback deletes the handle it was given
HandleAfterCloseDeleted(h) == Delete(h)

\* line 238: the callback does not delete the handle, finalize does
HandleAfterClose(h) == handles

\* lines 234-248: the UI layer reports the window of token h closed
notifyWindowClosed(h) ==
  /\ panic = "none"
  /\ handles' = IF h # 0 /\ Valid(h) /\ handles[h].kind = "vm"
                  THEN HandleAfterClose(h)
                  ELSE handles
  /\ IF h = 0
       THEN UNCHANGED <<panic, hasGUIWindow, lifecycle, peer>>
       ELSE IF ~Valid(h)
       THEN /\ panic' = "invalid handle: notifyWindowClosed"
            /\ UNCHANGED <<hasGUIWindow, lifecycle, peer>>
       ELSE IF handles[h].kind # "vm"
       THEN UNCHANGED <<panic, hasGUIWindow, lifecycle, peer>>
       ELSE IF Owner(h) = "vm"
       THEN /\ vmMu = "none"
            /\ hasGUIWindow' = FALSE
            /\ lifecycle' = "closed"
            /\ UNCHANGED <<panic, peer>>
       ELSE /\ peer' = [peer EXCEPT !.hasGUIWindow = FALSE]
            /\ UNCHANGED <<panic, hasGUIWindow, lifecycle>>
  /\ UNCHANGED <<handleIdx, macOSVersion, windowClosedHandle, vmMu, finalizeOnce,
                 guiPc, guiCount, uiTokens, finPc, guardedRuns, windowReleases,
                 dispatchReleases, vmReleases, windowHandles, stateVars, callVars, discVars,
                 surface, bringPc, bringHasGUI, bringResult, startLast, showLast, hasLast,
                 showCalls, frontCalls, windowOps, appRunning, startWaited, canStopLast,
                 handlerRunning, frontRaced, workerStartedWith, ui, app, reg>>

\* ----------------------------- ShowWindow, BringWindowToFront, HasGUIWindow
\* the presentation surface gains or loses its window on its own: the user
\* closes or hides it, the application creates another
SurfaceChanges ==
  /\ panic = "none"
  /\ surface' = ~surface
  /\ UNCHANGED <<registryVars, stateVars, callVars, vmVars, discVars, bringPc, bringHasGUI,
                 bringResult, startLast, showLast, hasLast, showCalls, frontCalls,
                 windowOps, lifecycle, appRunning, startWaited, canStopLast, handlerRunning,
                 frontRaced, workerStartedWith, peer, ui, app, reg>>

\* mutant: ShowWindow goes on without a handle
NeverInitializedIgnored(h) == FALSE

\* line 518: v.windowClosedHandle == 0
NeverInitialized(h) == h = 0

\* mutant: ShowWindow leaves the flag as it found it
ShownFlagKept(exists) == exists

\* line 521: v.hasGUIWindow = true
ShownFlag(exists) == TRUE

\* lines 513-521: version check, v.mu.Lock() with the unlock deferred to the
\* return, the handle check, hasGUIWindow = true
ShowWindow ==
  /\ panic = "none"
  /\ ConsumerHoldsVM
  /\ windowOps < MaxWindowOps
  /\ windowOps' = windowOps + 1
  /\ IF ~macOSAvailable(12)
       THEN /\ showLast' = [called |-> TRUE, err |-> ErrUnsupportedOSVersion,
                            handleBefore |-> windowClosedHandle, issued |-> FALSE]
            /\ UNCHANGED <<hasGUIWindow, surface, showCalls, lifecycle>>
       ELSE /\ vmMu = "none"
            /\ IF NeverInitialized(windowClosedHandle)
                 THEN /\ showLast' = [called |-> TRUE, err |-> ErrNeverInitialized,
                                      handleBefore |-> windowClosedHandle,
                                      issued |-> FALSE]
                      /\ UNCHANGED <<hasGUIWindow, surface, showCalls, lifecycle>>
                 ELSE /\ hasGUIWindow' = ShownFlag(hasGUIWindow)
                      /\ vmMu' = "ShowWindow"
                      /\ UNCHANGED <<showLast, surface, showCalls, lifecycle>>
  /\ IF macOSAvailable(12) /\ ~NeverInitialized(windowClosedHandle)
       THEN TRUE
       ELSE UNCHANGED vmMu
  /\ UNCHANGED <<registryVars, stateVars, callVars, discVars, windowClosedHandle,
                 finalizeOnce, guiPc, guiCount, uiTokens, finPc, guardedRuns,
                 windowReleases, dispatchReleases, vmReleases, windowHandles, bringPc,
                 bringHasGUI, bringResult, startLast, hasLast, frontCalls, appRunning, startWaited,
                 canStopLast, handlerRunning, frontRaced, workerStartedWith, peer, ui, app, reg>>

\* lines 522-523: C.showVirtualMachineWindow() with v.mu still held, then the
\* return, which runs the deferred unlock
ShowVirtualMachineWindow ==
  /\ panic = "none"
  /\ vmMu = "ShowWindow"
  /\ surface' = TRUE
  /\ showCalls' = showCalls + 1
  /\ showLast' = [called |-> TRUE, err |-> Nil, handleBefore |-> windowClosedHandle,
                  issued |-> TRUE]
  /\ lifecycle' = IF lifecycle = "closed" THEN "shown" ELSE lifecycle
  /\ vmMu' = "none"
  /\ UNCHANGED <<registryVars, stateVars, callVars, discVars, hasGUIWindow,
                 windowClosedHandle, finalizeOnce, guiPc, guiCount, uiTokens, finPc,
                 guardedRuns, windowReleases, dispatchReleases, vmReleases, windowHandles,
                 bringPc, bringHasGUI, bringResult, startLast, hasLast, frontCalls,
                 windowOps, appRunning, startWaited, canStopLast, handlerRunning, frontRaced,
                 workerStartedWith, peer, ui, app, reg>>

\* lines 491-496: version check, then hasGUI := v.hasGUIWindow under the read lock
BringWindowToFrontRead ==
  /\ panic = "none"
  /\ ConsumerHoldsVM
  /\ bringPc = "idle"
  /\ windowOps < MaxWindowOps
  /\ windowOps' = windowOps + 1
  /\ IF ~macOSAvailable(12)
       THEN /\ bringResult' = ErrUnsupportedOSVersion
            /\ bringHasGUI' = FALSE
            /\ UNCHANGED bringPc
       ELSE /\ vmMu = "none"
            /\ bringHasGUI' = hasGUIWindow
            /\ bringResult' = NotCalled
            /\ bringPc' = "read"
  /\ UNCHANGED <<registryVars, stateVars, callVars, vmVars, discVars, surface, startLast,
                 showLast, hasLast, showCalls, frontCalls, lifecycle, appRunning, startWaited,
                 canStopLast, handlerRunning, frontRaced, workerStartedWith, peer, ui, app, reg>>

\* mutant: the flag is not looked at
BringRefusesNever(hasGUI) == FALSE

\* mutant: the flag is read again at the check instead of the copy of line 495
BringRefusesCurrent(hasGUI) == ~hasGUIWindow

\* line 497: if !hasGUI
BringRefuses(hasGUI) == ~hasGUI

\* mutant: the surface is not asked
BringUnavailableNever(live) == FALSE

\* line 500: if !bool(C.hasVirtualMachineWindow())
BringUnavailable(live) == ~live

\* lines 497-504: no window, window not available, or the bring-to-front call
BringWindowToFrontFinish ==
  /\ panic = "none"
  /\ bringPc = "read"
  /\ bringPc' = "idle"
  /\ IF BringRefuses(bringHasGUI)
       THEN bringResult' = ErrNoWindow /\ UNCHANGED <<frontCalls, frontRaced>>
       ELSE IF BringUnavailable(surface)
       THEN bringResult' = ErrNotAvailable /\ UNCHANGED <<frontCalls, frontRaced>>
       ELSE /\ bringResult' = Nil
            /\ frontCalls' = frontCalls + 1
            /\ frontRaced' = (frontRaced \/ ~hasGUIWindow)
  /\ UNCHANGED <<registryVars, stateVars, callVars, vmVars, discVars, surface, bringHasGUI,
                 startLast, showLast, hasLast, showCalls, windowOps, lifecycle, appRunning,
                 startWaited, canStopLast, handlerRunning,
                 workerStartedWith, peer, ui, app, reg>>

\* mutant: the answer of the surface alone
HasGUIValueOfSurface(exists, live) == live

\* line 530: v.hasGUIWindow && bool(C.hasVirtualMachineWindow())
HasGUIValue(exists, live) == exists /\ live

\* lines 527-531: under the read lock
HasGUIWindow ==
  /\ panic = "none"
  /\ ConsumerHoldsVM
  /\ windowOps < MaxWindowOps
  /\ windowOps' = windowOps + 1
  /\ vmMu = "none"
  /\ hasLast' = [called |-> TRUE, exists |-> hasGUIWindow, surface |-> surface,
                 value |-> HasGUIValue(hasGUIWindow, surface), at |-> lifecycle]
  /\ UNCHANGED <<registryVars, stateVars, callVars, vmVars, discVars, surface, bringPc,
                 bringHasGUI, bringResult, startLast, showLast, showCalls, frontCalls,
                 lifecycle, appRunning, startWaited, canStopLast, handlerRunning, frontRaced,
                 workerStartedWith, peer, ui, app, reg>>

\* ------------------------------------------------------------------ finalize
\* mutant: the guard lets every invocation in
OnceEntersAlways(once) == once # "running"

\* sync.Once.Do: the first invocation runs the function
OnceEnters(once) == once = "fresh"

\* line 171: v.finalizeOnce.Do; a later invocation waits for the first, then returns
FinalizeEnter(f) ==
  /\ panic = "none"
  /\ finPc[f] = "idle"
  /\ finalizeOnce # "running"
  /\ IF OnceEnters(finalizeOnce)
       THEN finalizeOnce' = "running" /\ finPc' = [finPc EXCEPT ![f] = "guarded"]
       ELSE finalizeOnce' = finalizeOnce /\ finPc' = [finPc EXCEPT ![f] = "after"]
  /\ UNCHANGED <<registryVars, hasGUIWindow, windowClosedHandle, vmMu, guiPc, guiCount,
                 uiTokens, guardedRuns, windowReleases, dispatchReleases, vmReleases,
                 windowHandles, stateVars, callVars, discVars, guiVars, appRunning, startWaited,
                 canStopLast, handlerRunning, frontRaced, workerStartedWith, peer, ui, app, reg>>

\* lines 172-177: under v.mu, delete the window-closed handle if there is one
FinalizeGuarded(f) ==
  /\ panic = "none"
  /\ finPc[f] = "guarded"
  /\ vmMu = "none"
  /\ guardedRuns' = guardedRuns + 1
  /\ finPc' = [finPc EXCEPT ![f] = "release"]
  /\ IF windowClosedHandle = 0
       THEN UNCHANGED <<handles, panic, windowClosedHandle, windowReleases>>
       ELSE IF Valid(windowClosedHandle)
       THEN /\ handles' = Delete(windowClosedHandle)
            /\ windowClosedHandle' = 0
            /\ windowReleases' = windowReleases + 1
            /\ UNCHANGED panic
       ELSE /\ panic' = "invalid handle: Delete"
            /\ UNCHANGED <<handles, windowClosedHandle, windowReleases>>
  /\ UNCHANGED <<handleIdx, macOSVersion, hasGUIWindow, vmMu, finalizeOnce, guiPc, guiCount,
                 uiTokens, dispatchReleases, vmReleases, windowHandles, stateVars, callVars, discVars, guiVars,
                 appRunning, startWaited, canStopLast, handlerRunning, frontRaced,
                 workerStartedWith, peer, ui, app, reg>>

\* lines 178-180: objc.ReleaseDispatch, objc.Release; the Once is done
FinalizeRelease(f) ==
  /\ panic = "none"
  /\ finPc[f] = "release"
  /\ dispatchReleases' = dispatchReleases + 1
  /\ vmReleases' = vmReleases + 1
  /\ finalizeOnce' = "done"
  /\ finPc' = [finPc EXCEPT ![f] = "after"]
  /\ UNCHANGED <<registryVars, hasGUIWindow, windowClosedHandle, vmMu, guiPc, guiCount,
                 uiTokens, guardedRuns, windowReleases, windowHandles, stateVars, callVars, discVars, guiVars,
                 appRunning, startWaited, canStopLast, handlerRunning, frontRaced,
                 workerStartedWith, peer, ui, app, reg>>

\* mutant: the finalizer clears the whole handle table
FinalizerDeleteAll(h) == [x \in DOMAIN handles |-> NoValue]

\* line 165: stateHandle.Delete() deletes the one handle it is called on
FinalizerDelete(h) == Delete(h)

\* finalize returns; lines 163-166: the finalizer then deletes stateHandle
FinalizeReturn(f) ==
  /\ panic = "none"
  /\ finPc[f] = "after"
  /\ finPc' = [finPc EXCEPT ![f] = "done"]
  /\ IF f # "gc"
       THEN UNCHANGED <<handles, panic>>
       ELSE IF Valid(stateHandle)
       THEN handles' = FinalizerDelete(stateHandle) /\ UNCHANGED panic
       ELSE panic' = "invalid handle: Delete" /\ UNCHANGED handles
  /\ UNCHANGED <<handleIdx, macOSVersion, hasGUIWindow, windowClosedHandle, vmMu, finalizeOnce, guiPc,
                 guiCount, uiTokens, guardedRuns, windowReleases, dispatchReleases,
                 vmReleases, windowHandles, stateVars, callVars, discVars, guiVars, appRunning,
                 startWaited, canStopLast, handlerRunning, frontRaced, workerStartedWith, peer, ui,
                 app, reg>>

Next ==
  \/ \E width, height \in Dims, optErr \in BOOLEAN :
       StartGraphicApplication(width, height, optErr)
  \/ StartVirtualMachineWindow
  \/ \E h \in uiTokens \cup {0} : notifyWindowClosed(h)
  \/ \E f \in Finalizers : FinalizeEnter(f)
  \/ \E f \in Finalizers : FinalizeGuarded(f)
  \/ \E f \in Finalizers : FinalizeRelease(f)
  \/ \E f \in Finalizers : FinalizeReturn(f)
  \/ ApplicationTerminates

\* the window operations of a VM the consumer holds
NextWindow ==
  \/ \E width, height \in Dims, optErr \in BOOLEAN :
       StartGraphicApplication(width, height, optErr)
  \/ StartVirtualMachineWindow
  \/ \E h \in uiTokens \cup {0} : notifyWindowClosed(h)
  \/ ShowWindow
  \/ ShowVirtualMachineWindow
  \/ BringWindowToFrontRead
  \/ BringWindowToFrontFinish
  \/ HasGUIWindow
  \/ SurfaceChanges
  \/ ApplicationTerminates

SpecWindow == Init /\ [][NextWindow]_vars

\* ------------------------------------------ the UI layer closes the window
\* virtualization_default_app.m lines 654-670: the window of controller c is
\* about to close (the user closed it, or line 373 did). A stop is requested
\* if the VM can stop; its effect reaches the program as a later
\* state-observer callback. The controller is then removed from the app
\* delegate's collection, after which ApplicationTerminates may follow. The
\* handler does not call notifyWindowClosed: the controller holds no token.
windowWillClose(c, canStop) ==
  /\ panic = "none"
  /\ c \in ui.open
  /\ surface' = FALSE
  /\ ui' = AfterWillClose(ui, c, canStop)
  /\ UNCHANGED <<registryVars, stateVars, callVars, vmVars, discVars, bringPc, bringHasGUI,
                 bringResult, startLast, showLast, hasLast, showCalls, frontCalls,
                 windowOps, lifecycle, appVars, frontRaced, workerStartedWith, peer, app, reg>>

\* virtualization_default_app.m lines 659-663: the completion handler of the
\* stop requested on close; an error is logged and nothing else happens
stopCompletionHandler(failed) ==
  /\ panic = "none"
  /\ ui.pendingStops > 0
  /\ ui' = [ui EXCEPT !.pendingStops = @ - 1,
                      !.stopErrors = IF failed THEN @ + 1 ELSE @]
  /\ UNCHANGED <<registryVars, stateVars, callVars, vmVars, discVars, guiVars, appVars,
                 frontRaced, workerStartedWith, peer, app, reg>>

\* virtualization_default_app.m lines 358-377: the key-value observer of the
\* VM's state in controller c; on Stopped it closes the window, which runs
\* windowWillClose
observeValueForKeyPath(c, newState, canStop) ==
  /\ panic = "none"
  /\ c \in ui.open
  /\ IF newState = VirtualMachineStateStopped
       THEN surface' = FALSE /\ ui' = AfterWillClose(ui, c, canStop)
       ELSE UNCHANGED <<surface, ui>>
  /\ UNCHANGED <<registryVars, stateVars, callVars, vmVars, discVars, bringPc, bringHasGUI,
                 bringResult, startLast, showLast, hasLast, showCalls, frontCalls,
                 windowOps, lifecycle, appVars, frontRaced, workerStartedWith, peer, app, reg>>

\* virtualization_default_app.m lines 920-925: addWindowController:
addWindowController(c) ==
  /\ panic = "none"
  /\ ui.calls < MaxWindowOps
  /\ ui' = [AfterAdd(ui, c) EXCEPT !.calls = @ + 1]
  /\ UNCHANGED <<registryVars, stateVars, callVars, vmVars, discVars, guiVars, appVars,
                 frontRaced, workerStartedWith, peer, app, reg>>

\* virtualization_default_app.m lines 927-939: removeWindowController:
removeWindowController(c) ==
  /\ panic = "none"
  /\ ui.calls < MaxWindowOps
  /\ ui' = [AfterRemove(ui, c) EXCEPT !.calls = @ + 1]
  /\ UNCHANGED <<registryVars, stateVars, callVars, vmVars, discVars, guiVars, appVars,
                 frontRaced, workerStartedWith, peer, app, reg>>

\* the window operations with the closes the UI layer performs
NextWindowClose ==
  \/ \E width, height \in Dims, optErr \in BOOLEAN :
       StartGraphicApplication(width, height, optErr)
  \/ StartVirtualMachineWindow
  \/ \E c \in ControllerIds, canStop \in BOOLEAN : windowWillClose(c, canStop)
  \/ \E failed \in BOOLEAN : stopCompletionHandler(failed)
  \/ \E c \in ControllerIds, newState \in States, canStop \in BOOLEAN :
       observeValueForKeyPath(c, newState, canStop)
  \/ HasGUIWindow
  \/ ApplicationTerminates

\* lines 472-481: the foreign call follows the unlock of line 470 in the same
\* thread, so a started window is always created
SpecWindowClose ==
  /\ Init
  /\ [][NextWindowClose]_vars
  /\ WF_vars(StartVirtualMachineWindow)

\* window starts against an event loop the consumer may already be running
NextApplication ==
  \/ \E width, height \in Dims, optErr \in BOOLEAN :
       StartGraphicApplication(width, height, optErr)
  \/ StartVirtualMachineWindow
  \/ \E h \in uiTokens \cup {0} : notifyWindowClosed(h)
  \/ RunApplication
  \/ ApplicationTerminates

SpecApplication == Init /\ [][NextApplication]_vars

Spec == Init /\ [][Next]_vars

\* teardown racing the callbacks of the runtime and of the UI layer
NextTeardown ==
  \/ Next
  \/ \E t \in Threads, s \in States : ChangeStateBegin(t, s)
  \/ \E t \in Threads : ChangeStateSend(t)
  \/ \E t \in Threads : ChangeStateUnlock(t)

SpecTeardown == Init /\ [][NextTeardown]_vars

\* ------------------------------------- NetworkDeviceAttachmentWasDisconnected
\* sliceutil.FindValueByIndex: the element at idx, or the zero value (nil)
FindValueByIndex(s, idx) ==
  IF 0 <= idx /\ idx < Len(s) THEN s[idx + 1] ELSE NilConfig

\* mutant: the cause is dropped from the enriched error
DisconnectedErrorNoCause(d, config) == [Err |-> Nil, Config |-> config]

\* lines 585-588: &DisconnectedError{Err: disconnected.err, Config: config}
DisconnectedError(d, config) == [Err |-> d.err, Config |-> config]

\* mutant: an event without a configuration is dropped and ends the worker
AfterLookupStopsOnNil(config) == IF config = NilConfig THEN "closing" ELSE "publish"

\* lines 580-585: the send follows the lookup whatever the lookup returned
AfterLookup(config) == "publish"

\* mutant: the loop ends as soon as stage 1 is closed, queued events or not
RangeEndsOnClose(ch) == ch.closed

\* line 578: range over a channel ends when it is closed and drained
RangeEnds(ch) == ch.closed /\ ch.q = <<>>

\* lines 594-604: the runtime raises a disconnect event for device index
emitAttachmentWasDisconnected(index, errPtr) ==
  /\ panic = "none"
  /\ Len(rawEvents) < MaxEvents
  /\ IF ~Valid(disconnectedHandle)
       THEN /\ panic' = "invalid handle: emitAttachmentWasDisconnected"
            /\ UNCHANGED <<disconnectedIn, rawEvents>>
       ELSE IF disconnectedIn.closed
       THEN /\ panic' = "send on closed channel"
            /\ UNCHANGED <<disconnectedIn, rawEvents>>
       ELSE /\ InAccepts(disconnectedIn.q)
            /\ disconnectedIn' =
                 [disconnectedIn EXCEPT !.q = ChanSend(@, [err |-> newNSError(errPtr),
                                                           index |-> index])]
            /\ rawEvents' = Append(rawEvents, [errPtr |-> errPtr, index |-> index])
            /\ UNCHANGED panic
  /\ UNCHANGED <<handles, handleIdx, macOSVersion, disconnectedOut, watchDisconnectedOnce,
                 watchPc, watchEvent, watchConfig, ndCalls, ndResults, publicReceived,
                 workerStarts, outCloses, queuedAtClose, stateVars, callVars, vmVars, guiVars,
                 appRunning, startWaited, canStopLast, handlerRunning, frontRaced,
                 workerStartedWith, peer, ui, app, reg>>

\* lines 607-613: the runtime closes stage 1
closeAttachmentWasDisconnectedChannel ==
  /\ panic = "none"
  /\ IF ~Valid(disconnectedHandle)
       THEN /\ panic' = "invalid handle: closeAttachmentWasDisconnectedChannel"
            /\ UNCHANGED <<disconnectedIn, queuedAtClose>>
       ELSE IF disconnectedIn.closed
       THEN /\ panic' = "close of closed channel"
            /\ UNCHANGED <<disconnectedIn, queuedAtClose>>
       ELSE /\ disconnectedIn' = [disconnectedIn EXCEPT !.closed = TRUE]
            /\ queuedAtClose' = Len(disconnectedIn.q)
                                + (IF watchPc \in {"lookup", "publish"} THEN 1 ELSE 0)
            /\ UNCHANGED panic
  /\ UNCHANGED <<handles, handleIdx, macOSVersion, disconnectedOut, watchDisconnectedOnce,
                 watchPc, watchEvent, watchConfig, ndCalls, ndResults, publicReceived,
                 rawEvents, workerStarts, outCloses, stateVars, callVars, vmVars, guiVars,
                 appRunning, startWaited, canStopLast, handlerRunning, frontRaced,
                 workerStartedWith, peer, ui, app, reg>>

\* lines 566-574: version check, watchDisconnectedOnce.Do(go watchDisconnected),
\* return v.disconnectedOut.Out()
NetworkDeviceAttachmentWasDisconnectedCall ==
  /\ panic = "none"
  /\ ConsumerHoldsVM
  /\ ndCalls < MaxSubscriptions
  /\ ndCalls' = ndCalls + 1
  /\ IF ~macOSAvailable(12)
       THEN /\ ndResults' = ndResults \cup {[ch |-> "nil", err |-> ErrUnsupportedOSVersion]}
            /\ UNCHANGED <<watchDisconnectedOnce, watchPc, workerStarts>>
       ELSE /\ ndResults' = ndResults \cup {[ch |-> "disconnectedOut.Out", err |-> Nil]}
            /\ watchDisconnectedOnce' = "done"
            /\ IF OnceEnters(watchDisconnectedOnce)
                 THEN watchPc' = "receive" /\ workerStarts' = workerStarts + 1
                 ELSE UNCHANGED <<watchPc, workerStarts>>
  /\ UNCHANGED <<registryVars, disconnectedIn, disconnectedOut, watchEvent, watchConfig,
                 publicReceived, rawEvents, outCloses, queuedAtClose, stateVars, callVars,
                 vmVars, guiVars, appRunning, startWaited, canStopLast, handlerRunning, frontRaced,
                 peer, ui, app, reg>>

\* lines 566-574, the history of the worker's start left as it is
NetworkDeviceAttachmentWasDisconnected ==
  /\ NetworkDeviceAttachmentWasDisconnectedCall
  /\ UNCHANGED workerStartedWith

\* lines 566-574, with the history of what the worker found when line 571
\* started it
NetworkDeviceAttachmentWasDisconnectedRecorded ==
  /\ NetworkDeviceAttachmentWasDisconnectedCall
  /\ workerStartedWith' = IF workerStarts' # workerStarts
                             THEN [queued |-> Len(disconnectedIn.q),
                                   closed |-> disconnectedIn.closed]
                             ELSE workerStartedWith

\* line 578: the worker takes the next event of stage 1, or leaves the loop
WatchReceive ==
  /\ panic = "none"
  /\ watchPc = "receive"
  /\ IF RangeEnds(disconnectedIn)
       THEN /\ watchPc' = "closing"
            /\ UNCHANGED <<disconnectedIn, watchEvent>>
       ELSE /\ disconnectedIn.q # <<>>
            /\ watchEvent' = ChanHead(disconnectedIn.q)
            /\ disconnectedIn' = [disconnectedIn EXCEPT !.q = ChanRest(@)]
            /\ watchPc' = "lookup"
  /\ UNCHANGED <<registryVars, disconnectedOut, watchDisconnectedOnce, watchConfig, ndCalls,
                 ndResults, publicReceived, rawEvents, workerStarts, outCloses,
                 queuedAtClose, stateVars, callVars, vmVars, guiVars, appRunning, startWaited,
                 canStopLast, handlerRunning, frontRaced, workerStartedWith, peer, ui, app, reg>>

\* lines 579-584: under the read lock, the configuration at the event's index
WatchLookup ==
  /\ panic = "none"
  /\ watchPc = "lookup"
  /\ vmMu = "none"
  /\ watchConfig' = FindValueByIndex(networkDeviceConfiguration, watchEvent.index)
  /\ watchPc' = AfterLookup(watchConfig')
  /\ UNCHANGED <<registryVars, disconnectedIn, disconnectedOut, watchDisconnectedOnce,
                 watchEvent, ndCalls, ndResults, publicReceived, rawEvents, workerStarts,
                 outCloses, queuedAtClose, stateVars, callVars, vmVars, guiVars, appRunning,
                 startWaited, canStopLast, handlerRunning, frontRaced, workerStartedWith, peer, ui,
                 app, reg>>

\* lines 585-588: the enriched error is sent to the public channel
WatchPublish ==
  /\ panic = "none"
  /\ watchPc = "publish"
  /\ InAccepts(disconnectedOut.q)
  /\ disconnectedOut' =
       [disconnectedOut EXCEPT !.q = ChanSend(@, DisconnectedError(watchEvent, watchConfig))]
  /\ watchPc' = "receive"
  /\ UNCHANGED <<registryVars, disconnectedIn, watchDisconnectedOnce, watchEvent,
                 watchConfig, ndCalls, ndResults, publicReceived, rawEvents, workerStarts,
                 outCloses, queuedAtClose, stateVars, callVars, vmVars, guiVars, appRunning,
                 startWaited, canStopLast, handlerRunning, frontRaced, workerStartedWith, peer, ui,
                 app, reg>>

\* line 590: after the loop the worker closes the public channel and ends
WatchClose ==
  /\ panic = "none"
  /\ watchPc = "closing"
  /\ disconnectedOut' = [disconnectedOut EXCEPT !.closed = TRUE]
  /\ outCloses' = outCloses + 1
  /\ watchPc' = "done"
  /\ UNCHANGED <<registryVars, disconnectedIn, watchDisconnectedOnce, watchEvent,
                 watchConfig, ndCalls, ndResults, publicReceived, rawEvents, workerStarts,
                 queuedAtClose, stateVars, callVars, vmVars, guiVars, appRunning, startWaited,
                 canStopLast, handlerRunning, frontRaced, workerStartedWith, peer, ui, app, reg>>

\* the consumer receives from the channel line 573 returned
PublicReceive ==
  /\ panic = "none"
  /\ \E r \in ndResults : r.err = Nil
  /\ disconnectedOut.q # <<>>
  /\ publicReceived' = Append(publicReceived, ChanHead(disconnectedOut.q))
  /\ disconnectedOut' = [disconnectedOut EXCEPT !.q = ChanRest(@)]
  /\ UNCHANGED <<registryVars, disconnectedIn, watchDisconnectedOnce, watchPc, watchEvent,
                 watchConfig, ndCalls, ndResults, rawEvents, workerStarts, outCloses,
                 queuedAtClose, stateVars, callVars, vmVars, guiVars, appRunning, startWaited,
                 canStopLast, handlerRunning, frontRaced, workerStartedWith, peer, ui, app, reg>>

NextDisconnect ==
  \/ \E index \in DeviceIndexes, errPtr \in ErrPtrs :
       emitAttachmentWasDisconnected(index, errPtr)
  \/ closeAttachmentWasDisconnectedChannel
  \/ NetworkDeviceAttachmentWasDisconnected
  \/ WatchReceive
  \/ WatchLookup
  \/ WatchPublish
  \/ WatchClose
  \/ PublicReceive

SpecDisconnect == Init /\ [][NextDisconnect]_vars

\* the causes the liveness specification draws events from
LiveErrPtrs == {1}

\* NextDisconnect with every event carrying the same cause
NextDisconnectLive ==
  \/ \E index \in DeviceIndexes, errPtr \in LiveErrPtrs :
       emitAttachmentWasDisconnected(index, errPtr)
  \/ closeAttachmentWasDisconnectedChannel
  \/ NetworkDeviceAttachmentWasDisconnected
  \/ WatchReceive
  \/ WatchLookup
  \/ WatchPublish
  \/ WatchClose
  \/ PublicReceive

\* line 571: the worker is a goroutine of its own, which the Go scheduler keeps
\* running while it has a step to take
SpecDisconnectLive ==
  /\ Init
  /\ [][NextDisconnectLive]_vars
  /\ WF_vars(WatchReceive)
  /\ WF_vars(WatchLookup)
  /\ WF_vars(WatchPublish)
  /\ WF_vars(WatchClose)

\* --------------------------------------------- streams that nobody reads
\* the state every callback of this specification reports
NoReaderStates == {VirtualMachineStateRunning}

\* the device the disconnect events of this specification are about
NoReaderIndexes == {0}

\* both pipelines with no receive from stateNotify.Out() or disconnectedOut.Out()
NextNoReader ==
  \/ \E t \in Threads, s \in NoReaderStates : ChangeStateBegin(t, s)
  \/ \E t \in Threads : ChangeStateSend(t)
  \/ \E t \in Threads : ChangeStateUnlock(t)
  \/ State
  \/ \E index \in NoReaderIndexes, errPtr \in LiveErrPtrs :
       emitAttachmentWasDisconnected(index, errPtr)
  \/ NetworkDeviceAttachmentWasDisconnected
  \/ WatchReceive
  \/ WatchLookup
  \/ WatchPublish

\* lines 221-231: a callback runs on a native thread of its own and goes on to
\* its next statement whenever that statement can execute
SpecNoReader ==
  /\ Init
  /\ [][NextNoReader]_vars
  /\ \A t \in Threads : WF_vars(ChangeStateSend(t))
  /\ \A t \in Threads : WF_vars(ChangeStateUnlock(t))

\* ------------------------------------- both pipelines of one VM together
\* the disconnect pipeline with its consumer, interleaved with state-observer
\* callbacks
NextStreams ==
  \/ \E index \in NoReaderIndexes, errPtr \in ErrPtrs :
       emitAttachmentWasDisconnected(index, errPtr)
  \/ closeAttachmentWasDisconnectedChannel
  \/ NetworkDeviceAttachmentWasDisconnected
  \/ WatchReceive
  \/ WatchLookup
  \/ WatchPublish
  \/ WatchClose
  \/ PublicReceive
  \/ \E t \in Threads, s \in NoReaderStates : ChangeStateBegin(t, s)
  \/ \E t \in Threads : ChangeStateSend(t)
  \/ \E t \in Threads : ChangeStateUnlock(t)

SpecStreams == Init /\ [][NextStreams]_vars

\* ------------------------------------ control calls racing with teardown
\* the window size of this specification
TeardownDims == {800}

\* the control operation of this specification; Pause, Resume and Stop
\* register and release their handle as Start does (lines 357-409)
TeardownOps == {"Start"}

\* the results of this specification's completions: nil and one error
TeardownErrPtrs == {0, 1}

\* control calls the consumer started while it held the VM, a window, and the
\* finalizer running while the calls wait for their completions
NextCallTeardown ==
  \/ \E c \in Callers, op \in TeardownOps : ConsumerHoldsVM /\ Call(c, op, FALSE)
  \/ \E h \in Tokens, errPtr \in TeardownErrPtrs :
       virtualMachineCompletionHandler(h, errPtr)
  \/ \E h \in Tokens : HandlerClose(h)
  \/ \E c \in Callers : Return(c)
  \/ \E width, height \in TeardownDims : StartGraphicApplication(width, height, FALSE)
  \/ StartVirtualMachineWindow
  \/ FinalizeEnter("gc")
  \/ FinalizeGuarded("gc")
  \/ FinalizeRelease("gc")
  \/ FinalizeReturn("gc")

SpecCallTeardown == Init /\ [][NextCallTeardown]_vars

\* ------------------------------------- events raised before a subscription
\* the disconnect pipeline with the history of the worker's start
NextLateSubscriber ==
  \/ \E index \in NoReaderIndexes, errPtr \in ErrPtrs :
       emitAttachmentWasDisconnected(index, errPtr)
  \/ closeAttachmentWasDisconnectedChannel
  \/ NetworkDeviceAttachmentWasDisconnectedRecorded
  \/ WatchReceive
  \/ WatchLookup
  \/ WatchPublish
  \/ WatchClose
  \/ PublicReceive

\* line 571: the worker is a goroutine of its own, which the Go scheduler keeps
\* running while it has a step to take
SpecLateSubscriber ==
  /\ Init
  /\ [][NextLateSubscriber]_vars
  /\ WF_vars(WatchReceive)
  /\ WF_vars(WatchLookup)
  /\ WF_vars(WatchPublish)
  /\ WF_vars(WatchClose)

\* ------------------------------------------------ two VMs in one process
\* every variable of the first VM and of the process
firstVars == <<registryVars, stateVars, callVars, vmVars, discVars, guiVars, appVars,
               frontRaced, workerStartedWith, ui, app, reg>>

\* the handle table has room for n more tokens
HasToken(n) == handleIdx + n \in Tokens

\* lines 127-168: NewVirtualMachine creates the second VM, with a machine
\* state and a stage-1 channel of its own, each under a new handle
NewVirtualMachine ==
  /\ panic = "none"
  /\ ~peer.created
  /\ HasToken(2)
  /\ handles' = [handles EXCEPT
                   ![handleIdx + 1] = [kind |-> "machineState", ref |-> "peer"],
                   ![handleIdx + 2] = [kind |-> "disconnectedIn", ref |-> "peer"]]
  /\ handleIdx' = handleIdx + 2
  /\ peer' = [peer EXCEPT !.created = TRUE,
                          !.stateHandle = handleIdx + 1,
                          !.disconnectedHandle = handleIdx + 2]
  /\ UNCHANGED <<panic, macOSVersion, stateVars, callVars, vmVars, discVars, guiVars,
                 appVars, frontRaced, workerStartedWith, ui, app, reg>>

\* lines 451-483 on the second VM, up to the token it hands to the UI layer
PeerStartGraphicApplication ==
  /\ panic = "none"
  /\ peer.created
  /\ macOSAvailable(12)
  /\ peer.guiCount < MaxWindows
  /\ HasToken(1)
  /\ handles' = NewHandle([kind |-> "vm", ref |-> "peer"])
  /\ handleIdx' = handleIdx + 1
  /\ peer' = [peer EXCEPT !.hasGUIWindow = TRUE,
                          !.windowClosedHandle = handleIdx + 1,
                          !.uiTokens = @ \cup {handleIdx + 1},
                          !.guiCount = @ + 1]
  /\ UNCHANGED <<panic, macOSVersion, stateVars, callVars, vmVars, discVars, guiVars,
                 appVars, frontRaced, workerStartedWith, ui, app, reg>>

\* lines 221-231 with the token the runtime passes: the callback resolves the
\* token to the machine state registered under it and updates and publishes
\* that VM's state under that machine state's lock
changeStateOnObserver(t, newStateRaw, h) ==
  /\ Valid(h)
  /\ handles[h].kind = "machineState"
  /\ IF Owner(h) = "vm"
       THEN ChangeStateBegin(t, newStateRaw)
       ELSE /\ panic = "none"
            /\ Len(peer.stateNotify) < MaxCallbacks
            /\ peer' = [peer EXCEPT !.state = newStateRaw,
                                    !.stateNotify = ChanSend(@, newStateRaw)]
            /\ UNCHANGED firstVars

\* lines 594-604 with the token the runtime passes: the event is queued in the
\* stage-1 channel registered under the token
emitAttachmentWasDisconnectedOn(index, errPtr, h) ==
  /\ Valid(h)
  /\ handles[h].kind = "disconnectedIn"
  /\ IF Owner(h) = "vm"
       THEN emitAttachmentWasDisconnected(index, errPtr)
       ELSE /\ panic = "none"
            /\ Len(peer.disconnectedIn) < MaxEvents
            /\ InAccepts(peer.disconnectedIn)
            /\ peer' = [peer EXCEPT !.disconnectedIn =
                           ChanSend(@, [err |-> newNSError(errPtr), index |-> index])]
            /\ UNCHANGED firstVars

\* the native thread and the states of this specification's state callbacks
TwoVMThreads == {"t1"}
TwoVMStates == {VirtualMachineStateRunning}

\* the callbacks of two VMs, each carrying a token of its VM; a window-closed
\* callback carries a token that line 479 passed to the UI layer
NextTwoVMs ==
  \/ NewVirtualMachine
  \/ \E width, height \in TeardownDims :
       HasToken(1) /\ StartGraphicApplication(width, height, FALSE)
  \/ PeerStartGraphicApplication
  \/ \E t \in TwoVMThreads, s \in TwoVMStates, h \in {stateHandle, peer.stateHandle} :
       changeStateOnObserver(t, s, h)
  \/ \E t \in TwoVMThreads : ChangeStateSend(t)
  \/ \E t \in TwoVMThreads : ChangeStateUnlock(t)
  \/ \E index \in NoReaderIndexes, errPtr \in LiveErrPtrs,
        h \in {disconnectedHandle, peer.disconnectedHandle} :
       emitAttachmentWasDisconnectedOn(index, errPtr, h)
  \/ \E h \in windowHandles \cup peer.uiTokens : notifyWindowClosed(h)

SpecTwoVMs == Init /\ [][NextTwoVMs]_vars

\* the app delegate's collection under window starts, window closes and
\* direct calls of its two methods
NextWindowControllers ==
  \/ \E width, height \in TeardownDims : StartGraphicApplication(width, height, FALSE)
  \/ StartVirtualMachineWindow
  \/ ApplicationTerminates
  \/ \E c \in ControllerIds, canStop \in BOOLEAN : windowWillClose(c, canStop)
  \/ \E failed \in BOOLEAN : stopCompletionHandler(failed)
  \/ \E c \in ControllerIds : addWindowController(c)
  \/ \E c \in ControllerIds : removeWindowController(c)

SpecWindowControllers == Init /\ [][NextWindowControllers]_vars

\* ------------------------------------------------ the example application
\* everything but the example application's own state
libraryVars == <<registryVars, stateVars, callVars, vmVars, discVars, guiVars, appVars,
                 frontRaced, workerStartedWith, peer, ui>>

\* mutant: markRunning never finds the name
AlreadyRunningNever(names, name) == FALSE

\* unnamed/part_002 line 42: if runningVMs.names[name]
AlreadyRunning(names, name) == name \in names

\* unnamed/part_002 lines 49-53: the application after markStopped(title)
markStopped(a, title) == [a EXCEPT !.names = @ \ {title}, !.passes[title] = 0]

\* unnamed/part_002 lines 469-473 with markRunning, lines 39-47: under the
\* lock, the call finds the name and returns the error, or marks it
createAndShowVMEnter(c, title) ==
  /\ app.pc[c] = "idle"
  /\ app.calls < MaxAppCalls
  /\ app' = IF AlreadyRunning(app.names, title)
              THEN [app EXCEPT !.calls = @ + 1, !.title[c] = title, !.vm[c] = 0,
                               !.result[c] = "already running"]
              ELSE [app EXCEPT !.calls = @ + 1, !.title[c] = title, !.vm[c] = 0,
                               !.result[c] = "none", !.names = @ \cup {title},
                               !.passes[title] = @ + 1, !.pc[c] = "config"]
  /\ UNCHANGED <<libraryVars, reg>>

\* unnamed/part_002 lines 475-479: createVirtualMachineConfig, and markStopped
\* on its error
createAndShowVMConfig(c, ok) ==
  /\ app.pc[c] = "config"
  /\ app' = IF ok THEN [app EXCEPT !.pc[c] = "create"]
                  ELSE [markStopped(app, app.title[c]) EXCEPT !.pc[c] = "failed"]
  /\ UNCHANGED <<libraryVars, reg>>

\* unnamed/part_002 lines 481-485: vz.NewVirtualMachine, and markStopped on
\* its error
createAndShowVMCreate(c, ok) ==
  /\ app.pc[c] = "create"
  /\ app' = IF ok
              THEN [app EXCEPT !.pc[c] = "start", !.vm[c] = Len(app.vms) + 1,
                               !.vms = Append(@, [title |-> app.title[c], state |-> "created",
                                                  monitor |-> "none", shown |-> FALSE])]
              ELSE [markStopped(app, app.title[c]) EXCEPT !.pc[c] = "failed"]
  /\ UNCHANGED <<libraryVars, reg>>

\* unnamed/part_002 lines 487-502: vm.Start, markStopped on its error,
\* otherwise the goroutine that ranges over vm.StateChangedNotify() starts
createAndShowVMStart(c, ok) ==
  /\ app.pc[c] = "start"
  /\ app' = IF ok
              THEN [app EXCEPT !.pc[c] = "window", !.vms[app.vm[c]].state = "running",
                               !.vms[app.vm[c]].monitor = "ranging"]
              ELSE [markStopped(app, app.title[c]) EXCEPT !.pc[c] = "failed"]
  /\ UNCHANGED <<libraryVars, reg>>

\* unnamed/part_002 lines 504-511: vm.CreateWindow; on success the call
\* returns nil, on error it calls markStopped
createAndShowVMWindow(c, ok) ==
  /\ app.pc[c] = "window"
  /\ app' = IF ok
              THEN [app EXCEPT !.pc[c] = "idle", !.result[c] = "nil",
                               !.vms[app.vm[c]].shown = TRUE]
              ELSE [markStopped(app, app.title[c]) EXCEPT !.pc[c] = "failed"]
  /\ UNCHANGED <<libraryVars, reg>>

\* unnamed/part_002 lines 478, 484, 489, 506: the return of the error, after
\* markStopped released the lock
createAndShowVMReturn(c) ==
  /\ app.pc[c] = "failed"
  /\ app' = [app EXCEPT !.pc[c] = "idle", !.result[c] = "error"]
  /\ UNCHANGED <<libraryVars, reg>>

\* the guest of a started VM stops; its state stream gets Stopped
GuestStops(v) ==
  /\ v \in DOMAIN app.vms
  /\ app.vms[v].state = "running"
  /\ app' = [app EXCEPT !.vms[v].state = "stopped"]
  /\ UNCHANGED <<libraryVars, reg>>

\* unnamed/part_002 lines 493-501: the monitor goroutine of VM v receives
\* Stopped from the state stream, calls markStopped(title) and returns
MonitorReceivesStopped(v) ==
  /\ v \in DOMAIN app.vms
  /\ app.vms[v].monitor = "ranging"
  /\ app.vms[v].state = "stopped"
  /\ app' = [markStopped(app, app.vms[v].title) EXCEPT !.vms[v].monitor = "done"]
  /\ UNCHANGED <<libraryVars, reg>>

\* the example application's callers, its VMs and their monitors
NextExampleApp ==
  \/ \E c \in AppCallers, title \in Titles : createAndShowVMEnter(c, title)
  \/ \E c \in AppCallers, ok \in BOOLEAN : createAndShowVMConfig(c, ok)
  \/ \E c \in AppCallers, ok \in BOOLEAN : createAndShowVMCreate(c, ok)
  \/ \E c \in AppCallers, ok \in BOOLEAN : createAndShowVMStart(c, ok)
  \/ \E c \in AppCallers, ok \in BOOLEAN : createAndShowVMWindow(c, ok)
  \/ \E c \in AppCallers : createAndShowVMReturn(c)
  \/ \E v \in 1 .. MaxAppCalls : GuestStops(v)
  \/ \E v \in 1 .. MaxAppCalls : MonitorReceivesStopped(v)

SpecExampleApp == Init /\ [][NextExampleApp]_vars

\* ---------------------------------------------------- the example registry
\* example/gui-linux/registry.go lines 89-96 and 128-134: the index of the
\* first entry with the name, 0 if there is none
Find(vms, name) ==
  IF \E i \in DOMAIN vms : vms[i] = name
    THEN CHOOSE i \in DOMAIN vms : vms[i] = name /\ \A j \in 1 .. i - 1 : vms[j] # name
    ELSE 0

\* mutant: Add finds no entry
ExistsNever(vms, name) == FALSE

\* example/gui-linux/registry.go lines 99-101
Exists(vms, name) == Find(vms, name) # 0

\* example/gui-linux/registry.go line 148: append(r.VMs[:idx], r.VMs[idx+1:]...)
WithoutIndex(vms, idx) == SubSeq(vms, 1, idx - 1) \o SubSeq(vms, idx + 1, Len(vms))

\* example/gui-linux/registry.go lines 104-124: Add; the entry is appended and
\* saved, and taken off again if the save fails
Add(name, saveOk) ==
  /\ reg.ops < MaxRegistryOps
  /\ reg' = IF Exists(reg.VMs, name)
              THEN [reg EXCEPT !.ops = @ + 1, !.failed = @ \cup {"exists"}]
              ELSE LET appended == Append(reg.VMs, name)
                   IN  IF saveOk
                         THEN [reg EXCEPT !.ops = @ + 1, !.VMs = appended, !.disk = appended]
                         ELSE [reg EXCEPT !.ops = @ + 1, !.failed = @ \cup {"save"},
                                          !.VMs = SubSeq(appended, 1, Len(appended) - 1)]
  /\ UNCHANGED <<libraryVars, app>>

\* example/gui-linux/registry.go lines 127-150: Remove; a missing name or a
\* bundle that cannot be deleted returns early, otherwise the entry is cut
\* out and the registry saved
Remove(name, deleteBundle, deleteOk, saveOk) ==
  /\ reg.ops < MaxRegistryOps
  /\ LET idx == Find(reg.VMs, name)
     IN  reg' = IF idx = 0 \/ (deleteBundle /\ ~deleteOk)
                  THEN [reg EXCEPT !.ops = @ + 1]
                  ELSE LET cut == WithoutIndex(reg.VMs, idx)
                       IN  [reg EXCEPT !.ops = @ + 1, !.VMs = cut,
                                        !.disk = IF saveOk THEN cut ELSE @]
  /\ UNCHANGED <<libraryVars, app>>

\* any sequence of Add and Remove on one registry
NextRegistry ==
  \/ \E name \in RegistryNames, saveOk \in BOOLEAN : Add(name, saveOk)
  \/ \E name \in RegistryNames, deleteBundle, deleteOk, saveOk \in BOOLEAN :
       Remove(name, deleteBundle, deleteOk, saveOk)

SpecRegistry == Init /\ [][NextRegistry]_vars

\* ------------------------------------------------- platform version checks
\* lines 288-293: false below macOS 12, else what C.vmCanStop answers
CanStop ==
  /\ panic = "none"
  /\ ConsumerHoldsVM
  /\ IF ~macOSAvailable(12)
       THEN canStopLast' = [called |-> TRUE, asked |-> FALSE, value |-> FALSE]
       ELSE \E vmCanStop \in BOOLEAN :
              canStopLast' = [called |-> TRUE, asked |-> TRUE, value |-> vmCanStop]
  /\ UNCHANGED <<registryVars, stateVars, callVars, vmVars, discVars, guiVars, appRunning,
                 startWaited, handlerRunning, frontRaced, workerStartedWith, peer, ui, app, reg>>

\* the operations that require macOS 12, called on either platform, up to
\* their foreign calls
NextPlatform ==
  \/ \E c \in Callers : Call(c, "Stop", FALSE)
  \/ CanStop
  \/ \E width, height \in Dims, optErr \in BOOLEAN :
       StartGraphicApplication(width, height, optErr)
  \/ ShowWindow
  \/ ShowVirtualMachineWindow
  \/ BringWindowToFrontRead
  \/ BringWindowToFrontFinish
  \/ NetworkDeviceAttachmentWasDisconnected

SpecPlatform == Init /\ [][NextPlatform]_vars

\* ------------------------------------------------- claims on the state channel
\* the state a callback has stored but not yet sent
Unsent == IF \E t \in Threads : cbPc[t] = "send"
            THEN <<cbArg[CHOOSE t \in Threads : cbPc[t] = "send"]>>
            ELSE <<>>
\* no callback is running and the queue is empty
Drained == stateNotify = <<>> /\ \A t \in Threads : cbPc[t] = "idle"
\* s is the only subscriber and subscribed before the first callback
Sole(s) == subscribed = {s} /\ subscribedAt[s] = 0
\* s read every value the channel has handed out so far
OnlyReader(s) == \A i \in 1 .. Len(deliveredTo) : deliveredTo[i] = s
\* the fired states whose delivery went to s, in firing order
Share(s) ==
  LET idx == SelectSeq([i \in 1 .. Len(deliveredTo) |-> i], LAMBDA i : deliveredTo[i] = s)
  IN  [j \in 1 .. Len(idx) |-> fired[idx[j]]]

\* C1: State() called after the Nth state-observer callback returned yields the
\* state carried by the Nth callback, and Stopped when no callback has fired.
C1_StateIsLastCallback ==
  stateWasRead =>
    stateRead = IF stateReadAt = 0 THEN VirtualMachineStateStopped ELSE fired[stateReadAt]

\* State() was called after two callbacks carrying different states
C1_Witness ==
  /\ stateWasRead
  /\ stateReadAt >= 2
  /\ fired[stateReadAt] # fired[stateReadAt - 1]
  /\ stateRead # VirtualMachineStateStopped

\* C2: a single subscriber attached before the first callback receives the states
\* of the callbacks in firing order, none dropped, duplicated or coalesced: what
\* it read, followed by what is queued or about to be sent, is the firing sequence.
C2_SoleSubscriberGetsAll ==
  \A s \in Subscribers :
    Sole(s) => received[s] \o stateNotify \o Unsent = fired

\* the sole subscriber has drained a run that holds two equal consecutive states
C2_Witness ==
  \E s \in Subscribers :
    /\ Sole(s)
    /\ Drained
    /\ Len(received[s]) >= 2
    /\ received[s][1] = received[s][2]

C4_LateSubscriberSeesNoHistory ==
  \A s \in Subscribers :
    (s \in subscribed /\ subscribedAt[s] > 0 /\ OnlyReader(s)) =>
      /\ Len(received[s]) <= Len(fired) - subscribedAt[s]
      /\ \A i \in 1 .. Len(received[s]) : received[s][i] = fired[subscribedAt[s] + i]

\* C4 amended: a stream obtained after k > 0 unconsumed callbacks delivers those
\* k queued states first: what it read is a prefix of the whole firing sequence,
\* so its first value is the state of callback 1.
C4_LateSubscriberSeesHistory ==
  \A s \in Subscribers :
    (s \in subscribed /\ subscribedAt[s] > 0 /\ OnlyReader(s)) =>
      /\ Len(received[s]) + Len(stateNotify) + Len(Unsent) = Len(fired)
      /\ \A i \in 1 .. Len(received[s]) : received[s][i] = fired[i]

\* a subscriber attached after two callbacks has read the state of the first one
C4_Witness ==
  \E s \in Subscribers :
    /\ s \in subscribed
    /\ subscribedAt[s] >= 2
    /\ OnlyReader(s)
    /\ received[s] # <<>>
    /\ received[s][1] = fired[1]
    /\ Len(fired) > subscribedAt[s]
    /\ fired[1] # fired[subscribedAt[s] + 1]

\* -------------------------------------------- claims on the completion bridge
\* C5: a control call that returned through its completion returns exactly the
\* error (or nil) the runtime passed to the completion registered under the
\* handle of that very call, never the result of another call's completion.
C5_OwnCompletionResult ==
  \A c \in Callers :
    callPc[c] = "returned" =>
      /\ completion[callHandle[c]] = "fired"
      /\ callResult[c] = newNSError(firedPtr[callHandle[c]])

\* two calls were outstanding together, their completions carried different
\* errors, and both calls have returned
C5_Witness ==
  /\ \A c \in Callers : callPc[c] = "returned"
  /\ \E c, d \in Callers :
       /\ callHandle[c] < callHandle[d]
       /\ firedPtr[callHandle[c]] # firedPtr[callHandle[d]]
       /\ callResult[c] # callResult[d]
       /\ ~Valid(callHandle[c]) /\ ~Valid(callHandle[d])

\* C6: each invocation gets exactly one delivery on its single-slot channel; the
\* call does not return before that delivery, and the delivered value is taken
\* out of the channel once.
C6_ExactlyOneDelivery ==
  \A c \in Callers :
    /\ deliveries[c] <= 1
    /\ Len(errCh[c].buf) <= 1
    /\ callPc[c] = "waiting" => Len(errCh[c].buf) = deliveries[c]
    /\ callPc[c] = "returned" =>
         /\ deliveries[c] = 1
         /\ errCh[c].buf = <<>>
         /\ callHandle[c] \notin handlerRunning => errCh[c].closed

\* a Stop call returned after the one delivery of its completion
C6_Witness ==
  \E c \in Callers :
    /\ callPc[c] = "returned"
    /\ callOp[c] = "Stop"
    /\ deliveries[c] = 1
    /\ callResult[c] # Nil

\* C7: a call whose completion the runtime never fires stays blocked: no step
\* makes it return, there being no timeout or cancellation path.
C7_BlocksWithoutCompletion ==
  [][\A c \in Callers :
       (callPc[c] = "waiting" /\ completion[callHandle[c]] = "dropped") =>
         (callPc'[c] = "waiting" /\ completion'[callHandle'[c]] = "dropped")]_vars

\* a call is blocked on a completion the runtime will never fire, while the
\* other caller's call has returned
C7_Witness ==
  \E c, d \in Callers :
    /\ callPc[c] = "waiting"
    /\ completion[callHandle[c]] = "dropped"
    /\ errCh[c].buf = <<>>
    /\ callPc[d] = "returned"

\* ------------------------------------------ claims on the disconnect pipeline
\* every DisconnectedError the worker has sent, received by the consumer or not
Published == publicReceived \o disconnectedOut.q
\* the index names a configured network device
InRange(index) == 0 <= index /\ index < Len(networkDeviceConfiguration)
\* events the worker has taken from stage 1 and not yet published
InHand == IF watchPc \in {"lookup", "publish"} THEN 1 ELSE 0

\* C11: a raw disconnect event whose deviceIndex matches a configured network
\* device produces exactly one DisconnectedError on the public channel, whose
\* Err is the event's cause and whose Config is the configuration at that
\* index: the i-th published error answers the i-th raw event, and every raw
\* event is queued in stage 1, in the worker's hand, or published once
C11_InRangeEventEnriched ==
  /\ Len(Published) + InHand + Len(disconnectedIn.q) = Len(rawEvents)
  /\ \A i \in 1 .. Len(Published) :
       InRange(rawEvents[i].index) =>
         /\ Published[i].Err = newNSError(rawEvents[i].errPtr)
         /\ Published[i].Config = networkDeviceConfiguration[rawEvents[i].index + 1]

\* the consumer received the error of an event for the second device
C11_Witness ==
  /\ Len(publicReceived) >= 1
  /\ rawEvents[1] = [errPtr |-> 2, index |-> 1]
  /\ publicReceived[1] = [Err |-> NSError(2), Config |-> "net1"]

\* C12: a raw disconnect event whose deviceIndex is out of range still produces
\* a DisconnectedError, with Config nil, and the worker keeps running: it
\* leaves its loop only once stage 1 is closed and empty, so every later event
\* is published as usual
C12_OutOfRangeEventPublished ==
  /\ \A i \in 1 .. Len(Published) :
       ~InRange(rawEvents[i].index) =>
         /\ Published[i].Err = newNSError(rawEvents[i].errPtr)
         /\ Published[i].Config = NilConfig
  /\ watchPc \in {"closing", "done"} =>
       /\ disconnectedIn.closed
       /\ Len(Published) = Len(rawEvents)

\* an out-of-range event, negative or past the end, was published and the
\* event after it, for a configured device, was published too
C12_Witness ==
  /\ Len(publicReceived) = 2
  /\ ~InRange(rawEvents[1].index)
  /\ InRange(rawEvents[2].index)
  /\ publicReceived[1].Config = NilConfig
  /\ publicReceived[2].Config # NilConfig
  /\ ~disconnectedIn.closed

\* C13: for any number of calls to NetworkDeviceAttachmentWasDisconnected the
\* worker is started at most once, by the first call that passes the version
\* check, and every such call returns the same public channel
C13_WorkerStartedOnce ==
  /\ workerStarts <= 1
  /\ workerStarts = 1 <=> (ndCalls >= 1 /\ macOSAvailable(12))
  /\ watchPc = "off" <=> workerStarts = 0
  /\ \A r1 \in ndResults, r2 \in ndResults : r1.ch = r2.ch

\* two calls were made and the worker started by the first is running
C13_Witness ==
  /\ ndCalls = 2
  /\ workerStarts = 1
  /\ \E r \in ndResults : r.err = Nil

\* the public channel is closed only after stage 1 was closed and drained and
\* every event was published, and it is closed at most once
C14_ClosedAfterDrain ==
  /\ outCloses <= 1
  /\ disconnectedOut.closed <=> outCloses = 1
  /\ disconnectedOut.closed =>
       /\ disconnectedIn.closed
       /\ disconnectedIn.q = <<>>
       /\ watchPc = "done"
       /\ Len(Published) = Len(rawEvents)

\* C14: after the channel-close callback closes stage 1, the worker publishes
\* all events still queued, then terminates and closes the public channel
\* exactly once; the public channel is never closed before stage 1 is closed
\* and drained (a process the runtime crashed by a callback after the close
\* has no worker left)
C14_CloseDrainsThenClosesOnce ==
  /\ []C14_ClosedAfterDrain
  /\ (disconnectedIn.closed /\ workerStarts = 1)
       ~> (panic # "none" \/ (outCloses = 1 /\ Len(Published) = Len(rawEvents)))

\* stage 1 was closed with events still queued, and the public channel is
\* closed with all of them published
C14_Witness ==
  /\ queuedAtClose >= 1
  /\ outCloses = 1
  /\ watchPc = "done"
  /\ Len(Published) = Len(rawEvents)


\* C23: the one-shot handle registered by Start, Pause, Resume or Stop is
\* released exactly once, only after the completion entry point has resolved
\* it and delivered, and on every return path; no completion handle remains
\* registered after its operation returned and none is released while the
\* runtime may still invoke it
C23_CompletionHandleReleasedOnce ==
  /\ panic # "invalid handle: Delete"
  /\ \A c \in Callers :
       /\ callPc[c] = "failed" => callHandle[c] = 0
       /\ callPc[c] = "waiting" => Valid(callHandle[c])
       /\ callPc[c] = "returned" =>
            /\ ~Valid(callHandle[c])
            /\ completion[callHandle[c]] = "fired"
            /\ deliveries[c] = 1
  /\ \A h \in Tokens :
       /\ completion[h] = "pending" => Valid(h)
       /\ (Valid(h) /\ handles[h].kind = "handler") =>
            \E c \in Callers : callPc[c] = "waiting" /\ callHandle[c] = h

\* one operation returned after its completion and its handle is released,
\* while another returned early without a handle
C23_Witness ==
  \E c1, c2 \in Callers :
    /\ callPc[c1] = "returned"
    /\ callHandle[c1] # 0
    /\ ~Valid(callHandle[c1])
    /\ callPc[c2] = "failed"

\* the completion handle h leaves the registry in this step
ReleasedNow(h) == Valid(h) /\ handles[h].kind = "handler" /\ handles'[h] = NoValue

\* C24 as stated: the registry slot of a completion is released by the
\* registered callback itself as part of its invocation, not by any other
\* party, so that no release races the invocation
C24_CallbackReleasesOwnSlot ==
  [][\A h \in Tokens :
       ReleasedNow(h) => (completion[h] = "pending" \/ h \in handlerRunning)
                         /\ (completion'[h] # completion[h]
                             \/ handlerRunning' # handlerRunning)]_vars

\* C24: the registry slot of a completion is released by the operation that
\* registered it, when it returns with the delivered result: never by the
\* callback or the entry point, and never before the callback was resolved
\* and has delivered; the callback may still be running (closing its channel)
\* when the slot is released
C24_OperationReleasesAfterDelivery ==
  [][\A h \in Tokens :
       ReleasedNow(h) =>
         /\ completion[h] = "fired"
         /\ completion'[h] = completion[h]
         /\ handlerRunning' = handlerRunning
         /\ \E c \in Callers :
              /\ callHandle[c] = h
              /\ callPc[c] = "waiting"
              /\ callPc'[c] = "returned"]_vars

\* the operation has returned and released the slot of a callback that has
\* delivered and has not yet returned
C24_Witness ==
  \E c \in Callers :
    /\ callPc[c] = "returned"
    /\ ~Valid(callHandle[c])
    /\ callHandle[c] \in handlerRunning
    /\ ~errCh[c].closed

\* C25: no thread holds the VM lock or the MachineState lock while it
\* executes a foreign call or a channel send: here, ShowWindow is never inside
\* C.showVirtualMachineWindow() with v.mu held
C25_NoLockAcrossForeignCall == vmMu # "ShowWindow"

\* ------------------------------------------- claims on the platform check
\* C22: when the platform version is below 12, Stop, StartGraphicApplication,
\* BringWindowToFront, ShowWindow and NetworkDeviceAttachmentWasDisconnected
\* return the version error before any foreign call: no handle is
\* registered, no worker is started, the window state is unchanged; CanStop
\* returns false
C22_UnsupportedBeforeForeignCall ==
  macOSVersion < 12 =>
    /\ \A c \in Callers :
         callCount[c] > 0 =>
           /\ callPc[c] = "failed"
           /\ callResult[c] = ErrUnsupportedOSVersion
           /\ callHandle[c] = 0
    /\ startLast.called => startLast.err = ErrUnsupportedOSVersion
    /\ showLast.called => (showLast.err = ErrUnsupportedOSVersion /\ ~showLast.issued)
    /\ bringResult \in {NotCalled, ErrUnsupportedOSVersion}
    /\ \A r \in ndResults : r.err = ErrUnsupportedOSVersion /\ r.ch = "nil"
    /\ canStopLast.called => (~canStopLast.value /\ ~canStopLast.asked)
    /\ handleIdx = disconnectedHandle
    /\ \A h \in Tokens : Valid(h) <=> h \in {stateHandle, disconnectedHandle}
    /\ \A h \in Tokens : completion[h] # "pending"
    /\ workerStarts = 0 /\ watchPc = "off" /\ watchDisconnectedOnce = "fresh"
    /\ ~hasGUIWindow /\ windowClosedHandle = 0 /\ windowHandles = {}
    /\ guiPc = "idle" /\ bringPc = "idle" /\ showCalls = 0 /\ frontCalls = 0

\* below macOS 12 every one of the operations was called and refused
C22_Witness ==
  /\ macOSVersion < 12
  /\ \E c \in Callers : callOp[c] = "Stop" /\ callPc[c] = "failed"
  /\ startLast.called
  /\ showLast.called
  /\ bringResult = ErrUnsupportedOSVersion
  /\ ndCalls >= 1
  /\ canStopLast.called

\* ----------------------------------------------- claims on the GUI window
\* the dimensions StartGraphicApplication was last called with are not both positive
BadDimensions == startLast.width <= 0 \/ startLast.height <= 0

\* C15: StartGraphicApplication with width <= 0 or height <= 0 returns a
\* validation error, performs no foreign call, allocates no window handle and
\* leaves hasGUIWindow unchanged
C15_BadDimensionsRejected ==
  (startLast.called /\ BadDimensions) =>
    /\ startLast.err # Nil
    /\ startLast.handleAfter = startLast.handleBefore
    /\ guiPc # "window"

\* C16: BringWindowToFront on a VM for which StartGraphicApplication was never
\* called returns the 'no window' error (below macOS 12 the error of the
\* version check) and issues no bring-to-front call; it returns that error
\* whenever the flag it read was false
C16_NoWindowNoFront ==
  /\ (bringPc = "idle" /\ bringResult # NotCalled /\ ~bringHasGUI) =>
       bringResult = IF macOSAvailable(12) THEN ErrNoWindow ELSE ErrUnsupportedOSVersion
  /\ bringResult = Nil => bringHasGUI
  /\ windowHandles = {} => frontCalls = 0

\* BringWindowToFront was refused on a VM that never started a window, though
\* the surface reports one
C16_Witness ==
  /\ bringPc = "idle"
  /\ bringResult = ErrNoWindow
  /\ windowHandles = {}
  /\ guiCount = 0
  /\ surface

\* C17: ShowWindow on a VM for which no window handle was ever allocated
\* returns the 'never initialized' error (below macOS 12 the error of the
\* version check), issues no show call and leaves hasGUIWindow false
C17_NeverInitializedNoShow ==
  /\ (showLast.called /\ showLast.handleBefore = 0) =>
       /\ showLast.err = IF macOSAvailable(12) THEN ErrNeverInitialized
                                               ELSE ErrUnsupportedOSVersion
       /\ ~showLast.issued
  /\ windowHandles = {} => (showCalls = 0 /\ ~hasGUIWindow)

\* ShowWindow was refused on a VM that never allocated a handle
C17_Witness ==
  /\ showLast.called
  /\ showLast.err = ErrNeverInitialized
  /\ windowHandles = {}
  /\ ~hasGUIWindow

\* C18: after a successful StartGraphicApplication followed by a window-closed
\* notification, ShowWindow succeeds, sets hasGUIWindow back to true and
\* reissues the show call, so that HasGUIWindow is true again once the surface
\* reports the window present
C18_ShowAfterCloseRestores ==
  /\ lifecycle = "shown" =>
       /\ showLast.err = Nil
       /\ showLast.issued
       /\ showCalls >= 1
       /\ hasGUIWindow
  /\ (hasLast.called /\ hasLast.at = "shown") => (hasLast.value <=> hasLast.surface)

\* one start, a close notification, ShowWindow, and HasGUIWindow returned true
C18_Witness ==
  /\ guiCount = 1
  /\ lifecycle = "shown"
  /\ showCalls = 1
  /\ hasLast.called
  /\ hasLast.at = "shown"
  /\ hasLast.value

\* C19: HasGUIWindow returns true exactly when hasGUIWindow is true and the
\* surface reports a live window; it returns false before any
\* StartGraphicApplication and after a window-closed notification, whatever
\* the surface reports
C19_HasGUIIsFlagAndSurface ==
  /\ hasLast.called => (hasLast.value <=> (hasLast.exists /\ hasLast.surface))
  /\ (hasLast.called /\ hasLast.at \in {"none", "closed"}) => ~hasLast.value
  /\ (lifecycle \in {"none", "closed"} /\ vmMu # "ShowWindow") => ~hasGUIWindow

\* HasGUIWindow returned false after a close notification though the surface
\* reported a window
C19_Witness ==
  /\ hasLast.called
  /\ hasLast.at = "closed"
  /\ hasLast.surface
  /\ ~hasLast.value

\* C20: over any sequence of StartGraphicApplication, window-closed
\* notification and ShowWindow the window handle is allocated at most once, by
\* the first successful StartGraphicApplication; later calls reuse the token
C20_HandleAllocatedOnce ==
  /\ Cardinality(windowHandles) <= 1
  /\ (startLast.called /\ startLast.err = Nil /\ startLast.handleBefore # 0) =>
       startLast.handleAfter = startLast.handleBefore

\* C21 as stated: a successful StartGraphicApplication returns once the
\* window-creation call has been made and never waits for the UI event loop
\* to terminate
C21_StartNeverWaitsForEventLoop == guiPc # "run"

\* C21: a successful StartGraphicApplication returns once the window is
\* created only when the application's event loop is already running;
\* otherwise the call runs the event loop itself and returns when that loop
\* ends
C21_StartWaitsUnlessLoopRuns ==
  [][/\ (guiPc = "window" /\ guiPc' # "window") =>
          IF appRunning THEN guiPc' = "idle" /\ ~startWaited'
                        ELSE guiPc' = "run" /\ appRunning' /\ startWaited'
     /\ (guiPc = "run" /\ guiPc' # "run") => (guiPc' = "idle" /\ ~appRunning')]_vars

\* a start made while the event loop was running has returned with the loop
\* still running
C21_Witness ==
  /\ startLast.called
  /\ startLast.err = Nil
  /\ guiPc = "idle"
  /\ ~startWaited
  /\ appRunning

\* ------------------------------------------- claims on handles and teardown
\* C8: a callback that arrives with a token already released by teardown (or
\* never registered) is handled as 'not found': resolving it never crashes.
C8_ReleasedTokenIsNotFound ==
  panic \notin {"invalid handle: notifyWindowClosed",
                "invalid handle: changeStateOnObserver",
                "invalid handle: virtualMachineCompletionHandler"}

\* C9: however often and however interleaved finalize is invoked, the guarded
\* release logic runs exactly once: the window handle (if one was allocated),
\* the dispatch queue and the VM object are each released exactly once.
C9_TeardownRunsOnce ==
  /\ guardedRuns <= 1 /\ windowReleases <= 1
  /\ dispatchReleases <= 1 /\ vmReleases <= 1
  /\ panic # "invalid handle: Delete"
  /\ (\E f \in Finalizers : finPc[f] \in {"after", "done"}) =>
       /\ guardedRuns = 1
       /\ dispatchReleases = 1
       /\ vmReleases = 1
       /\ windowReleases = IF windowHandles = {} THEN 0 ELSE 1

\* finalize was invoked twice on a VM with a window handle and both returned
C9_Witness ==
  /\ \A f \in Finalizers : finPc[f] = "done"
  /\ windowHandles # {}
  /\ windowReleases = 1
  /\ guardedRuns = 1

\* C10: once the finalizer has completed, the machine-state handle, the
\* disconnect-channel handle and every window-closed handle allocated by
\* StartGraphicApplication have been released from the handle table.
C10_TeardownReleasesAllHandles ==
  finPc["gc"] = "done" =>
    \A h \in {stateHandle, disconnectedHandle} \cup windowHandles : ~Valid(h)

\* C26: under concurrent state-observer callbacks from different native
\* threads the update of the current state and its publication are one step
\* under the write lock: at most one callback is between its store and its
\* unlock, what was published (delivered, then queued, then about to be sent)
\* is exactly the sequence of updates in update order, and once the stream is
\* drained with no callback in flight the last delivered state is what State()
\* reads.
C26_PublishOrderIsUpdateOrder ==
  /\ \A t \in Threads : cbPc[t] # "idle" <=> msMu = t
  /\ Len(deliveredTo) + Len(stateNotify) + Len(Unsent) = Len(fired)
  /\ stateNotify \o Unsent = SubSeq(fired, Len(deliveredTo) + 1, Len(fired))
  /\ \A s \in Subscribers : received[s] = Share(s)
  /\ (Drained /\ deliveredTo # <<>>) =>
       LET last == deliveredTo[Len(deliveredTo)]
       IN  received[last][Len(received[last])] = StateValue

\* three callbacks ran on the two threads, reported different states, and all
\* of them were delivered
C26_Witness ==
  /\ Drained
  /\ Len(fired) = 3
  /\ fired[1] # fired[2] /\ fired[2] # fired[3]
  /\ Len(deliveredTo) = 3
  /\ StateValue = fired[3]

\* C27: producers never wait for consumers. With nobody receiving from the
\* state stream or the disconnect stream, a state-observer callback that holds
\* the lock always goes on to publish and release it, so State() is not blocked
\* for ever; the send of a state, of a raw disconnect event and of an enriched
\* disconnect event can always be taken, however much is queued.
C27_ProducersNeverWait ==
  /\ [](\A t \in Threads : cbPc[t] = "send" => ENABLED ChangeStateSend(t))
  /\ []((Len(rawEvents) < MaxEvents /\ Valid(disconnectedHandle)) =>
          ENABLED (\E index \in NoReaderIndexes, errPtr \in LiveErrPtrs :
                     emitAttachmentWasDisconnected(index, errPtr)))
  /\ [](watchPc = "publish" => ENABLED WatchPublish)
  /\ \A t \in Threads : (msMu = t) ~> (msMu = "none" /\ cbPc[t] = "idle")

\* nothing was ever received, every state and every disconnect event is
\* queued, the callbacks have returned and State() has read the latest state
C27_Witness ==
  /\ Len(stateNotify) = MaxCallbacks
  /\ Len(disconnectedOut.q) = MaxEvents
  /\ publicReceived = <<>>
  /\ \A s \in Subscribers : received[s] = <<>>
  /\ \A t \in Threads : cbPc[t] = "idle"
  /\ stateWasRead /\ stateReadAt = MaxCallbacks

\* C28: a window-closed notification carrying the token of a VM sets that
\* VM's hasGUIWindow to false and changes nothing else: the handle table and
\* the stored window handle are as before, the token still resolves, and a
\* ShowWindow after the notification passes its handle check with that token
\* and succeeds.
C28_WindowClosedOnlyClearsFlag ==
  [][/\ \A h \in uiTokens :
          notifyWindowClosed(h) =>
            /\ ~hasGUIWindow'
            /\ handles' = handles
            /\ Valid(h)'
            /\ windowClosedHandle' = windowClosedHandle
            /\ windowHandles' = windowHandles
            /\ UNCHANGED <<handleIdx, panic, macOSVersion, vmMu, finalizeOnce, guiPc,
                           guiCount, uiTokens, finPc, guardedRuns, windowReleases,
                           dispatchReleases, vmReleases, surface, bringPc, bringHasGUI,
                           bringResult, startLast, showLast, hasLast, showCalls,
                           frontCalls, windowOps, stateVars, callVars, discVars, appVars,
                           frontRaced, workerStartedWith, peer, ui, app, reg>>
     /\ (lifecycle = "closed" /\ lifecycle' = "shown") =>
          /\ showLast'.err = Nil
          /\ showLast'.handleBefore = windowClosedHandle
          /\ Valid(windowClosedHandle)'
    ]_vars

\* the window was closed by a notification with the VM's token, the token is
\* still in the handle table, and a ShowWindow after it succeeded
C28_Witness ==
  /\ lifecycle = "shown"
  /\ guiCount = 1
  /\ windowClosedHandle \in uiTokens
  /\ Valid(windowClosedHandle)
  /\ showLast.err = Nil
  /\ showLast.handleBefore = windowClosedHandle
  /\ hasGUIWindow

\* a window of the VM was started and created, and the UI layer has closed it
WindowClosedByUI == lifecycle = "started" /\ guiPc # "window" /\ ~surface

\* C29: when the VM state becomes Stopped while a window is open, or the user
\* closes the window, the UI layer fires the window-closed notification, so
\* that hasGUIWindow eventually becomes false.
C29_CloseLeadsToFlagCleared == WindowClosedByUI ~> ~hasGUIWindow

\* C30: BringWindowToFront that read hasGUIWindow true while the surface
\* reports no window returns the 'window unavailable' error, which is not the
\* 'no window' error, and issues no bring-to-front call; a bring-to-front call
\* is issued only by a BringWindowToFront that passed both checks, which
\* returns nil.
C30_UnavailableIsDistinctAndSilent ==
  [][/\ (bringPc = "read" /\ bringPc' = "idle" /\ bringHasGUI /\ ~surface) =>
          /\ bringResult' = ErrNotAvailable
          /\ bringResult' # ErrNoWindow
          /\ frontCalls' = frontCalls
     /\ frontCalls' # frontCalls =>
          /\ bringPc = "read" /\ bringPc' = "idle"
          /\ bringHasGUI /\ surface
          /\ bringResult' = Nil
          /\ frontCalls' = frontCalls + 1
    ]_vars

\* BringWindowToFront read the flag true, found no window on the surface and
\* returned 'window unavailable' without a bring-to-front call
C30_Witness ==
  /\ bringPc = "idle"
  /\ bringResult = ErrNotAvailable
  /\ bringHasGUI
  /\ hasGUIWindow
  /\ ~surface
  /\ frontCalls = 0

\* C31: the close/bring-to-front race is reachable. A BringWindowToFront that
\* read hasGUIWindow true goes on with its copy: when a window-closed
\* notification has set hasGUIWindow to false before the check of line 497 and
\* the surface still reports a window, it does not return the 'no window'
\* error, it issues the bring-to-front call and returns nil.
C31_StaleFlagStillBringsToFront ==
  [][(bringPc = "read" /\ bringPc' = "idle" /\ bringHasGUI /\ ~hasGUIWindow /\ surface) =>
       /\ bringResult' = Nil
       /\ frontCalls' = frontCalls + 1
       /\ frontRaced'
    ]_vars

\* a bring-to-front call was issued after a window-closed notification had
\* cleared the flag that BringWindowToFront read as true
C31_Witness ==
  /\ frontRaced
  /\ bringPc = "idle"
  /\ bringResult = Nil
  /\ bringHasGUI
  /\ ~hasGUIWindow
  /\ lifecycle = "closed"

\* the raw event as emitAttachmentWasDisconnected queues it
Queued(raw) == [err |-> newNSError(raw.errPtr), index |-> raw.index]

\* C32: the public disconnect channel carries exactly one DisconnectedError per
\* raw disconnect event, in the order the runtime raised the events: what was
\* published answers a prefix of the raw events one to one, the event in the
\* worker's hand is the next one and stage 1 holds the rest in order; no step
\* of the state-observer callbacks changes the disconnect pipeline and no step
\* of the pipeline changes the state stream.
C32_OneErrorPerEventInOrder ==
  /\ [](/\ Len(Published) + InHand + Len(disconnectedIn.q) = Len(rawEvents)
        /\ \A i \in 1 .. Len(Published) :
             Published[i].Err = newNSError(rawEvents[i].errPtr)
        /\ InHand = 1 => watchEvent = Queued(rawEvents[Len(Published) + 1])
        /\ \A j \in 1 .. Len(disconnectedIn.q) :
             disconnectedIn.q[j] = Queued(rawEvents[Len(Published) + InHand + j]))
  /\ [][/\ discVars' # discVars => stateVars' = stateVars
        /\ stateVars' # stateVars => discVars' = discVars]_vars

\* two events with different causes were received in the order they were
\* raised, while state-observer callbacks published states in between
C32_Witness ==
  /\ Len(publicReceived) = 2
  /\ rawEvents[1].errPtr # rawEvents[2].errPtr
  /\ publicReceived[1].Err = newNSError(rawEvents[1].errPtr)
  /\ publicReceived[2].Err = newNSError(rawEvents[2].errPtr)
  /\ Len(stateNotify) >= 1

\* C33: teardown never releases the one-shot completion handle of an in-flight
\* Start, Pause, Resume or Stop. However finalize interleaves with outstanding
\* control calls, the handle of a waiting call resolves to that call's handler,
\* the completion entry point never fails to resolve it, and a call that
\* returned got the result of its own completion, delivered once.
C33_TeardownSparesCompletionHandles ==
  /\ \A c \in Callers :
       callPc[c] = "waiting" =>
         /\ Valid(callHandle[c])
         /\ handles[callHandle[c]] = [kind |-> "handler", ref |-> c]
  /\ panic \notin {"invalid handle: virtualMachineCompletionHandler",
                   "interface conversion: virtualMachineCompletionHandler",
                   "invalid handle: Delete"}
  /\ \A c \in Callers :
       callPc[c] = "returned" =>
         /\ completion[callHandle[c]] = "fired"
         /\ deliveries[c] = 1
         /\ callResult[c] = newNSError(firedPtr[callHandle[c]])

\* the finalizer ran to its end and released the window handle and the state
\* handle while a control call was waiting, and the completion of that call
\* was resolved and delivered
C33_Witness ==
  \E c \in Callers :
    /\ callPc[c] = "waiting"
    /\ deliveries[c] = 1
    /\ firedPtr[callHandle[c]] # 0
    /\ finPc["gc"] = "done"
    /\ windowReleases = 1
    /\ ~Valid(stateHandle)

\* C34: disconnect events raised before the first call to
\* NetworkDeviceAttachmentWasDisconnected are not lost. Until the worker is
\* started every raw event stays queued in stage 1 and the public channel is
\* neither written nor closed; what is published is always a prefix of the
\* raw events in order, so earlier events come before later ones; once the
\* worker has started, everything that was queued at its start is published,
\* and if stage 1 was closed by then the worker publishes everything and
\* closes the public channel (a process the runtime crashed by a callback
\* after the close has no worker left).
C34_EarlyEventsNotLost ==
  /\ [](workerStarts = 0 =>
          /\ Published = <<>>
          /\ ~disconnectedOut.closed /\ outCloses = 0
          /\ Len(disconnectedIn.q) = Len(rawEvents))
  /\ [](/\ Len(Published) <= Len(rawEvents)
        /\ \A i \in 1 .. Len(Published) :
             Published[i].Err = newNSError(rawEvents[i].errPtr))
  /\ (workerStarts = 1)
       ~> (panic # "none" \/ Len(Published) >= workerStartedWith.queued)
  /\ (workerStarts = 1 /\ workerStartedWith.closed)
       ~> (panic # "none" \/ (outCloses = 1 /\ Len(Published) = Len(rawEvents)))

\* two events with different causes were raised and stage 1 was closed before
\* the first subscription; the consumer received both in order and the public
\* channel is closed
C34_Witness ==
  /\ workerStartedWith = [queued |-> 2, closed |-> TRUE]
  /\ Len(publicReceived) = 2
  /\ rawEvents[1].errPtr # rawEvents[2].errPtr
  /\ publicReceived[1].Err = newNSError(rawEvents[1].errPtr)
  /\ publicReceived[2].Err = newNSError(rawEvents[2].errPtr)
  /\ disconnectedOut.closed
  /\ outCloses = 1

\* the token belongs to the first VM, to the second VM
OfFirst(h) == Valid(h) /\ handles[h].ref = "vm"
OfPeer(h) == Valid(h) /\ handles[h].ref = "peer"

\* a step of the state-observer, disconnect or window-closed callback with token h
CallbackWith(h) ==
  \/ \E t \in TwoVMThreads, s \in TwoVMStates : changeStateOnObserver(t, s, h)
  \/ \E index \in NoReaderIndexes, errPtr \in LiveErrPtrs :
       emitAttachmentWasDisconnectedOn(index, errPtr, h)
  \/ notifyWindowClosed(h)

\* C35: callbacks are isolated per VM. A state-observer, disconnect or
\* window-closed callback carrying a token of one VM leaves the other VM's
\* current state, streams, hasGUIWindow and window handle unchanged, and a
\* callback carrying a token of the second VM changes that VM.
C35_CallbacksIsolatedPerVM ==
  [][\A h \in Tokens :
       /\ (OfFirst(h) /\ CallbackWith(h)) => peer' = peer
       /\ (OfPeer(h) /\ CallbackWith(h)) =>
            /\ peer' # peer
            /\ UNCHANGED <<state, stateNotify, fired, disconnectedIn, disconnectedOut,
                           rawEvents, hasGUIWindow, windowClosedHandle, lifecycle>>
    ]_vars

\* both VMs have a window and the second VM has had all three callbacks: its
\* state changed and its streams hold values while the first VM's state and
\* streams are as they were created, and only its window flag is cleared
C35_Witness ==
  /\ peer.created
  /\ state = VirtualMachineStateStopped /\ peer.state = VirtualMachineStateRunning
  /\ stateNotify = <<>> /\ fired = <<>>
  /\ Len(peer.stateNotify) = 2
  /\ disconnectedIn.q = <<>> /\ Len(peer.disconnectedIn) = 2
  /\ windowClosedHandle # 0 /\ hasGUIWindow
  /\ peer.windowClosedHandle # 0 /\ ~peer.hasGUIWindow

\* C36: on the window close path a stop is requested exactly when the VM can
\* stop, and the controller is out of the collection after the close whatever
\* canStop answered; the completion of the stop, failed or not, changes only
\* the log of stop errors and never the collection.
C36_CloseRemovesControllerWhateverStopDoes ==
  /\ [][\A c \in ControllerIds, canStop \in BOOLEAN :
          windowWillClose(c, canStop) =>
            /\ ui'.stopRequests = ui.stopRequests + (IF canStop THEN 1 ELSE 0)
            /\ c \notin Range(ui'.controllers)
            /\ c \notin ui'.open
            /\ ui'.stopErrors = ui.stopErrors]_vars
  /\ [][\A failed \in BOOLEAN :
          stopCompletionHandler(failed) =>
            /\ ui'.stopErrors = ui.stopErrors + (IF failed THEN 1 ELSE 0)
            /\ ui' = [ui EXCEPT !.pendingStops = ui'.pendingStops,
                                !.stopErrors = ui'.stopErrors]
            /\ UNCHANGED <<registryVars, stateVars, callVars, vmVars, discVars, guiVars,
                           appVars>>]_vars

\* two windows were closed, one with a stop requested that then failed and one
\* without a stop, and neither controller is left in the collection
C36_Witness ==
  /\ ui.created = 2
  /\ ui.open = {}
  /\ ui.stopRequests = 1
  /\ ui.pendingStops = 0
  /\ ui.stopErrors = 1
  /\ ui.controllers = <<>>

\* a step that runs removeWindowController, directly or from windowWillClose
RemoveWindowControllerRan ==
  \/ \E c \in ControllerIds : removeWindowController(c)
  \/ \E c \in ControllerIds, canStop \in BOOLEAN : windowWillClose(c, canStop)

\* C37: termination is requested in a step exactly when that step runs
\* removeWindowController and leaves the collection empty; no other step,
\* and no removal that leaves a controller registered, requests it.
C37_TerminateExactlyOnLastRemoval ==
  [][(ui'.terminateRequests # ui.terminateRequests) <=>
       (RemoveWindowControllerRan /\ ui'.controllers = <<>>)]_vars

\* with a created controller and a second one added, one removal left a
\* controller registered and requested nothing, the next one emptied the
\* collection and requested termination once
C37_Witness ==
  /\ ui.created = 1
  /\ ui.calls = 3
  /\ ui.open = {1}
  /\ ui.controllers = <<>>
  /\ ui.terminateRequests = 1

\* C38: for each name at most one createAndShowVM call has passed markRunning
\* since the last markStopped for that name, and a call that finds the name
\* marked returns the 'already running' error having created no VM and
\* changed no mark.
C38_OnePassPerNameUntilStopped ==
  /\ [](\A t \in Titles : app.passes[t] <= 1)
  /\ [][\A c \in AppCallers, t \in Titles :
          (createAndShowVMEnter(c, t) /\ t \in app.names) =>
            /\ app'.result[c] = "already running"
            /\ app'.pc[c] = "idle"
            /\ app'.vms = app.vms
            /\ app'.names = app.names]_vars

\* one caller is past markRunning with its VM started, and the other caller's
\* call with the same name returned 'already running'; no VM but the first
\* exists
C38_Witness ==
  /\ app.pc["create"] = "window"
  /\ app.title["create"] = "vm"
  /\ app.title["start"] = "vm"
  /\ app.result["start"] = "already running"
  /\ app.pc["start"] = "idle"
  /\ Len(app.vms) = 1
  /\ app.passes["vm"] = 1

\* C39 (second half): a VM whose createAndShowVM returned nil and whose state
\* stream has not yet delivered Stopped to its monitor has its name marked
\* running.
C39_MarkedUntilStopped ==
  \A v \in DOMAIN app.vms :
    (app.vms[v].shown /\ app.vms[v].monitor = "ranging") => app.vms[v].title \in app.names

\* C40: the names of the registry's entries are pairwise distinct after any
\* sequence of Add and Remove, and an Add that fails, on an existing name or
\* on a failed save, leaves the entry list as it was before the call.
C40_AddKeepsNamesDistinct ==
  /\ [](\A i, j \in DOMAIN reg.VMs : reg.VMs[i] = reg.VMs[j] => i = j)
  /\ [][\A name \in RegistryNames, saveOk \in BOOLEAN :
          (Add(name, saveOk) /\ (name \in Range(reg.VMs) \/ ~saveOk)) =>
            reg'.VMs = reg.VMs]_vars

\* with one entry registered, an Add of its name failed and an Add of another
\* name failed on the save; the list still holds the one entry
C40_Witness ==
  /\ reg.failed = {"exists", "save"}
  /\ Len(reg.VMs) = 1
  /\ reg.ops = 3

====
